---- MODULE Spec2Model ----
(***************************************************************************)
(* A model of the WhatsApp health-claim assistant (src/whatsapp/app.py).   *)
(*                                                                         *)
(* Texts are sequences of one-character strings, indexed from 0 as in the  *)
(* Python source (position i of the source is element i+1 of the sequence).*)
(***************************************************************************)
EXTENDS Integers, Sequences, FiniteSets, TLC

(***************************************************************************)
(* Bounds of the model.                                                    *)
(***************************************************************************)
MaxTextLen == 5
MaxLimit == 3
MaxLabels == 3
MaxUrls == 5
MaxFragments == 6
MaxRequests == 3
MaxPages == 3
MaxMedia == 2
MaxLinks == 4

(***************************************************************************)
(* Python string primitives used by the source.                            *)
(***************************************************************************)
\* the characters str.strip() removes, among those the model's texts use
Whitespace == {" ", "\t", "\n"}

Min(a, b) == IF a <= b THEN a ELSE b

MinOf(S) == CHOOSE m \in S : \A x \in S : m <= x

\* s[i:j] for 0 <= i <= j <= len(s)
Slice(s, i, j) == SubSeq(s, i + 1, j)

RECURSIVE FirstWhere(_, _, _, _, _)
\* the lowest position p in lo..hi (counted from 1) with (s[p] \in C) = member,
\* or 0 if there is none; found by halving, so that long texts nest shallowly
FirstWhere(s, C, member, lo, hi) ==
    IF lo > hi THEN 0
    ELSE IF lo = hi THEN (IF (s[lo] \in C) = member THEN lo ELSE 0)
    ELSE LET mid == (lo + hi) \div 2
             left == FirstWhere(s, C, member, lo, mid)
         IN  IF left # 0 THEN left ELSE FirstWhere(s, C, member, mid + 1, hi)

RECURSIVE LastWhere(_, _, _, _, _)
\* the highest such position, or 0
LastWhere(s, C, member, lo, hi) ==
    IF lo > hi THEN 0
    ELSE IF lo = hi THEN (IF (s[lo] \in C) = member THEN lo ELSE 0)
    ELSE LET mid == (lo + hi) \div 2
             right == LastWhere(s, C, member, mid + 1, hi)
         IN  IF right # 0 THEN right ELSE LastWhere(s, C, member, lo, mid)

\* s.strip()
strip(s) ==
    LET first == FirstWhere(s, Whitespace, FALSE, 1, Len(s))
    IN  IF first = 0 THEN <<>>
        ELSE SubSeq(s, first, LastWhere(s, Whitespace, FALSE, 1, Len(s)))

\* s.rfind(ch, lo, hi): the highest index in [lo, hi) holding ch, or -1
rfind(s, ch, lo, hi) == LastWhere(s, {ch}, TRUE, lo + 1, hi) - 1

\* s.find(ch): the lowest index holding ch, or -1
find(s, ch) == FirstWhere(s, {ch}, TRUE, 1, Len(s)) - 1

\* s.startswith(p, i): p stands in s at index i
startswith_at(s, p, i) == i + Len(p) <= Len(s) /\ SubSeq(s, i + 1, i + Len(p)) = p

\* s.startswith(p)
startswith(s, p) == startswith_at(s, p, 0)

\* s.endswith(p)
endswith(s, p) == Len(p) <= Len(s) /\ SubSeq(s, Len(s) - Len(p) + 1, Len(s)) = p

RECURSIVE Concat(_)
\* "".join(seqs)
Concat(seqs) == IF seqs = <<>> THEN <<>> ELSE Head(seqs) \o Concat(Tail(seqs))

RECURSIVE Join(_, _)
\* sep.join(seqs)
Join(sep, seqs) ==
    IF seqs = <<>> THEN <<>>
    ELSE IF Len(seqs) = 1 THEN seqs[1]
    ELSE seqs[1] \o sep \o Join(sep, Tail(seqs))

DigitChar == <<"0", "1", "2", "3", "4", "5", "6", "7", "8", "9">>

RECURSIVE str_int(_)
\* str(n) for n >= 0, as the f-string renders an int
str_int(n) == IF n < 10 THEN <<DigitChar[n + 1]>>
              ELSE str_int(n \div 10) \o <<DigitChar[(n % 10) + 1]>>

\* all texts over alphabet A of length at most n
TextsUpTo(A, n) == UNION {[1..k -> A] : k \in 0..n}

(***************************************************************************)
(* chunk_message (src/whatsapp/app.py:87-102)                              *)
(***************************************************************************)
ChunkEndAtAnySpace(text, limit, start) ==
    LET n == Len(text)
        end == Min(start + limit, n)
    IN  IF end < n
        THEN LET space == rfind(text, " ", start, end)
             IN  IF space >= start THEN space ELSE end
        ELSE end

\* lines 90-94: where the piece starting at start ends
ChunkEnd(text, limit, start) ==
    LET n == Len(text)
        end == Min(start + limit, n)
    IN  IF end < n
        THEN LET space == rfind(text, " ", start, end)
             IN  IF space > start THEN space ELSE end
        ELSE end

ChunkAppendShort(chunks, text, start, end) ==
    LET piece == strip(Slice(text, start, end - 1))
    IN  IF piece # <<>> THEN Append(chunks, piece) ELSE chunks

\* lines 95-97: the piece is appended unless it strips to nothing
ChunkAppend(chunks, text, start, end) ==
    LET piece == strip(Slice(text, start, end))
    IN  IF piece # <<>> THEN Append(chunks, piece) ELSE chunks

\* line 101: the "(i+1/total) " marker of the chunk with 0-based index i
ChunkMarker(i, total) ==
    <<"(">> \o str_int(i + 1) \o <<"/">> \o str_int(total) \o <<")", " ">>

NumberChunksFromZero(chunks) ==
    IF Len(chunks) > 1
    THEN [k \in 1..Len(chunks) |->
            <<"(">> \o str_int(k - 1) \o <<"/">> \o str_int(Len(chunks))
                \o <<")", " ">> \o chunks[k]]
    ELSE chunks

\* lines 99-101
NumberChunks(chunks) ==
    IF Len(chunks) > 1
    THEN [k \in 1..Len(chunks) |-> ChunkMarker(k - 1, Len(chunks)) \o chunks[k]]
    ELSE chunks

RECURSIVE ChunkLoop(_, _, _, _)
\* lines 89-98: the while loop, run to its end
ChunkLoop(text, limit, start, chunks) ==
    IF start < Len(text)
    THEN LET end == ChunkEnd(text, limit, start)
         IN  ChunkLoop(text, limit, end, ChunkAppend(chunks, text, start, end))
    ELSE chunks

chunk_message(text, limit) == NumberChunks(ChunkLoop(text, limit, 0, <<>>))

(***************************************************************************)
(* allowed_url (src/whatsapp/app.py:108-114) and the part of               *)
(* urllib.parse.urlparse it relies on.                                     *)
(***************************************************************************)
\* src/whatsapp/app.py:46-51
ALLOWED_DOMAINS == <<
    <<"w", "h", "o", ".", "i", "n", "t">>,
    <<"c", "d", "c", ".", "g", "o", "v">>,
    <<"i", "c", "m", "r", ".", "g", "o", "v", ".", "i", "n">>,
    <<"m", "o", "h", "f", "w", ".", "g", "o", "v", ".", "i", "n">>,
    <<"f", "d", "a", ".", "g", "o", "v">>,
    <<"e", "m", "a", ".", "e", "u", "r", "o", "p", "a", ".", "e", "u">>,
    <<"n", "i", "c", "e", ".", "o", "r", "g", ".", "u", "k">>,
    <<"c", "o", "c", "h", "r", "a", "n", "e", "l", "i", "b", "r", "a", "r", "y", ".", "c", "o", "m">>,
    <<"b", "m", "j", ".", "c", "o", "m">>,
    <<"t", "h", "e", "l", "a", "n", "c", "e", "t", ".", "c", "o", "m">>,
    <<"n", "a", "t", "u", "r", "e", ".", "c", "o", "m">>,
    <<"n", "h", "s", ".", "u", "k">>,
    <<"m", "a", "y", "o", "c", "l", "i", "n", "i", "c", ".", "o", "r", "g">>,
    <<"h", "o", "p", "k", "i", "n", "s", "m", "e", "d", "i", "c", "i", "n", "e", ".", "o", "r", "g">>>>

LowerLetters == <<"a", "b", "c", "d", "e", "f", "g", "h", "i", "j", "k", "l", "m",
                 "n", "o", "p", "q", "r", "s", "t", "u", "v", "w", "x", "y", "z">>

UpperLetters == <<"A", "B", "C", "D", "E", "F", "G", "H", "I", "J", "K", "L", "M",
                 "N", "O", "P", "Q", "R", "S", "T", "U", "V", "W", "X", "Y", "Z">>

Range(f) == {f[i] : i \in DOMAIN f}

\* the characters a URL scheme may hold
SchemeChars == Range(LowerLetters) \cup Range(UpperLetters) \cup Range(DigitChar)
                  \cup {"+", "-", "."}

\* s.lower()
lower(s) ==
    [i \in 1..Len(s) |->
        IF s[i] \in Range(UpperLetters)
        THEN LowerLetters[CHOOSE k \in 1..26 : UpperLetters[k] = s[i]]
        ELSE s[i]]

\* s[:i], or s when i is -1
BeforeIndex(s, i) == IF i = -1 THEN s ELSE Slice(s, 0, i)

\* s[i+1:], or "" when i is -1
AfterIndex(s, i) == IF i = -1 THEN <<>> ELSE Slice(s, i + 1, Len(s))

\* s.partition(ch)[0]
BeforeFirst(s, ch) == BeforeIndex(s, find(s, ch))

\* s.partition(ch)[2]
AfterFirst(s, ch) == AfterIndex(s, find(s, ch))

\* s.rpartition(ch)[2]
AfterLast(s, ch) == Slice(s, rfind(s, ch, 0, Len(s)) + 1, Len(s))

\* urlsplit: url without its first i+1 characters if they are "scheme:"
DropScheme(url, i) ==
    IF /\ i > 0
       /\ url[1] \in Range(LowerLetters) \cup Range(UpperLetters)
       /\ \A k \in 1..i : url[k] \in SchemeChars
    THEN Slice(url, i + 1, Len(url))
    ELSE url

\* urlsplit: the url with a leading "scheme:" removed
UrlAfterScheme(url) == DropScheme(url, find(url, ":"))

\* _splitnetloc: rest[2:delim], stop being the position of the first / ? #
NetlocUpTo(rest, stop) == Slice(rest, 2, IF stop = 0 THEN Len(rest) ELSE stop - 1)

\* urlsplit: the netloc of what follows the scheme, the text between a
\* leading "//" and the first of / ? #
NetlocOf(rest) ==
    IF startswith_at(rest, <<"/", "/">>, 0)
    THEN NetlocUpTo(rest, FirstWhere(rest, {"/", "?", "#"}, TRUE, 3, Len(rest)))
    ELSE <<>>

UrlNetloc(url) == NetlocOf(UrlAfterScheme(url))

\* urlsplit raises ValueError("Invalid IPv6 URL") on an unmatched bracket
NetlocRaises(netloc) == ("[" \in Range(netloc)) # ("]" \in Range(netloc))

\* _hostinfo: the host name of "host:port" or "[host]:port"
HostinfoName(hostinfo) ==
    IF "[" \in Range(hostinfo)
    THEN BeforeFirst(AfterFirst(hostinfo, "["), "]")
    ELSE BeforeFirst(hostinfo, ":")

\* hostname: the name lowercased up to index k, where a "%zone" starts
LowerUpTo(name, k) == lower(Slice(name, 0, k)) \o Slice(name, k, Len(name))

\* hostname: the name lowercased up to its "%zone"
LowerZone(name) == LowerUpTo(name, Len(BeforeFirst(name, "%")))

\* urlparse(url).hostname or "", for the netloc of url: userinfo and port
\* removed, lowercased
NetlocHostname(netloc) == LowerZone(HostinfoName(AfterLast(netloc, "@")))

HostAllowedBySubstring(host) ==
    \E k \in DOMAIN ALLOWED_DOMAINS :
        \E i \in 0..Len(host) : startswith_at(host, ALLOWED_DOMAINS[k], i)

\* line 112, for the lowercased host
HostAllowed(host) ==
    \E k \in DOMAIN ALLOWED_DOMAINS :
        \/ host = ALLOWED_DOMAINS[k]
        \/ endswith(host, <<".">> \o ALLOWED_DOMAINS[k])

\* lines 109-114, for the netloc urlparse finds in the url
NetlocAllowed(netloc) ==
    IF NetlocRaises(netloc) THEN FALSE ELSE HostAllowed(lower(NetlocHostname(netloc)))

\* lines 108-114
allowed_url(url) == NetlocAllowed(UrlNetloc(url))

(***************************************************************************)
(* extract_urls and filter_urls (src/whatsapp/app.py:116-129)              *)
(***************************************************************************)
\* the length of "https://" or "http://" if it stands at index i, or -1
UrlHeadAt(text, i) ==
    IF startswith_at(text, <<"h", "t", "t", "p", "s", ":", "/", "/">>, i) THEN 8
    ELSE IF startswith_at(text, <<"h", "t", "t", "p", ":", "/", "/">>, i) THEN 7
    ELSE -1

\* the end of the run of [^\s)] that starts at index from: stop is the
\* position of the first character outside it, 0 if there is none
UrlRunEnd(text, from, stop) ==
    LET end == IF stop = 0 THEN Len(text) ELSE stop - 1
    IN  IF end = from THEN -1 ELSE end

\* where the match of https?://[^\s)]+ that starts at index i ends, or -1
UrlMatchFrom(text, i, head) ==
    IF head = -1 THEN -1
    ELSE UrlRunEnd(text, i + head,
                   FirstWhere(text, Whitespace \cup {")"}, TRUE, i + head + 1, Len(text)))

UrlMatchEnd(text, i) == UrlMatchFrom(text, i, UrlHeadAt(text, i))

\* the index of the first match at or after index i, or -1
NextUrlStart(text, i) ==
    LET M == {j \in i..(Len(text) - 1) : UrlMatchEnd(text, j) # -1}
    IN  IF M = {} THEN -1 ELSE MinOf(M)

RECURSIVE FindAllUrls(_, _)
\* re.findall from the match that starts at index m (-1: no match is left)
\* on: leftmost matches, none overlapping
FindAllUrls(text, m) ==
    IF m = -1 THEN <<>>
    ELSE LET end == UrlMatchEnd(text, m)
         IN  <<Slice(text, m, end)>> \o FindAllUrls(text, NextUrlStart(text, end))

\* lines 116-117
extract_urls(text) == FindAllUrls(text, NextUrlStart(text, 0))

\* s.rstrip(chars)
rstrip(s, chars) == SubSeq(s, 1, LastWhere(s, chars, FALSE, 1, Len(s)))

\* line 123
TrailingPunctuation == {".", ",", ")", ";"}

RECURSIVE FilterLoopNoSeen(_, _, _, _)
FilterLoopNoSeen(urls, limit, seen, keep) ==
    IF urls = <<>> THEN keep
    ELSE LET u == rstrip(Head(urls), TrailingPunctuation)
             kept == allowed_url(u)
             keep2 == IF kept THEN Append(keep, u) ELSE keep
         IN  IF Len(keep2) >= limit THEN keep2
             ELSE FilterLoopNoSeen(Tail(urls), limit, seen, keep2)

RECURSIVE FilterLoop(_, _, _, _)
\* lines 122-128: the for loop over the urls not yet visited
FilterLoop(urls, limit, seen, keep) ==
    IF urls = <<>> THEN keep
    ELSE LET u == rstrip(Head(urls), TrailingPunctuation)
             kept == u \notin seen /\ allowed_url(u)
             keep2 == IF kept THEN Append(keep, u) ELSE keep
             seen2 == IF kept THEN seen \cup {u} ELSE seen
         IN  IF Len(keep2) >= limit THEN keep2
             ELSE FilterLoop(Tail(urls), limit, seen2, keep2)

\* lines 119-129
filter_urls(urls, limit) == FilterLoop(urls, limit, {}, <<>>)

(***************************************************************************)
(* The reply post-processing of bot() (src/whatsapp/app.py:327-335)        *)
(***************************************************************************)
\* [A-Za-z0-9_], the characters \b tells apart from the others
WordChars == Range(LowerLetters) \cup Range(UpperLetters) \cup Range(DigitChar) \cup {"_"}

SourcesMarker == <<"S", "o", "u", "r", "c", "e", "s", ":">>

\* \bSources:\b matches at index i: "Sources:" stands there, no word
\* character before it and a word character right after the colon
SourcesRegexAt(text, i) ==
    /\ startswith_at(text, SourcesMarker, i)
    /\ i = 0 \/ text[i] \notin WordChars
    /\ i + Len(SourcesMarker) < Len(text)
    /\ text[i + Len(SourcesMarker) + 1] \in WordChars

\* re.split(r"\bSources:\b", text, maxsplit=1)[0]
BeforeSourcesRegex(text) ==
    LET M == {i \in 0..(Len(text) - 1) : SourcesRegexAt(text, i)}
    IN  IF M = {} THEN text ELSE Slice(text, 0, MinOf(M))

\* line 333: "\nSources:\n" + "\n".join(f"- {u}" for u in urls)
SourcesFooter(urls) ==
    <<"\n">> \o SourcesMarker \o <<"\n">>
        \o Join(<<"\n">>, [k \in 1..Len(urls) |-> <<"-", " ">> \o urls[k]])

\* lines 330-335: final_reply, given the urls_in_reply of line 328
final_reply_with(model_reply, urls_in_reply) ==
    IF urls_in_reply # <<>>
    THEN strip(BeforeSourcesRegex(model_reply)) \o SourcesFooter(urls_in_reply)
    ELSE model_reply

\* lines 328-335: final_reply as computed from model_reply
final_reply_of(model_reply) ==
    final_reply_with(model_reply, filter_urls(extract_urls(model_reply), 3))

(***************************************************************************)
(* Conversation memory (src/whatsapp/app.py:72-84).  db maps each user_id  *)
(* that has a row in the conversations table to its history column.        *)
(***************************************************************************)
RECURSIVE split(_, _)
\* s.split(ch)
split(s, ch) ==
    IF find(s, ch) = -1 THEN <<s>>
    ELSE <<BeforeFirst(s, ch)>> \o split(AfterFirst(s, ch), ch)

\* lst[-k:]
LastItems(lst, k) == IF Len(lst) <= k THEN lst ELSE SubSeq(lst, Len(lst) - k + 1, Len(lst))

\* s[:k]
FirstChars(s, k) == IF Len(s) <= k THEN s ELSE SubSeq(s, 1, k)

\* line 79: the number of history entries kept
HistoryKeep == 20

\* line 338: the characters of the reply kept in the Assistant turn
AssistantBudget == 1000

\* line 43
WHATSAPP_MSG_LIMIT == 1500

\* lines 72-76
get_history(db, user_id) ==
    IF user_id \in DOMAIN db /\ db[user_id] # <<>>
    THEN split(db[user_id], "\n")
    ELSE <<>>

save_history_merging(db, user_id, history_list) ==
    LET history_text == Join(<<"\n">>, LastItems(history_list, HistoryKeep))
    IN  [u \in DOMAIN db \cup {user_id} |->
            IF u # user_id THEN db[u]
            ELSE IF u \in DOMAIN db /\ db[u] # <<>>
                 THEN db[u] \o <<"\n">> \o history_text
                 ELSE history_text]

\* lines 78-84: the table after the upsert
save_history(db, user_id, history_list) ==
    LET history_text == Join(<<"\n">>, LastItems(history_list, HistoryKeep))
    IN  [u \in DOMAIN db \cup {user_id} |-> IF u = user_id THEN history_text ELSE db[u]]

\* line 280
UserTurn(incoming_text) ==
    <<"U", "s", "e", "r", ":", " ">> \o
        (IF incoming_text # <<>> THEN incoming_text ELSE <<"(", "m", "e", "d", "i", "a", ")">>)

\* line 338
AssistantTurn(final_reply) ==
    <<"A", "s", "s", "i", "s", "t", "a", "n", "t", ":", " ">> \o FirstChars(final_reply, AssistantBudget)

(***************************************************************************)
(* The reasoning call of bot() (src/whatsapp/app.py:318-325).              *)
(***************************************************************************)
\* line 223
ImageFallback == <<
      "I", " ", "c", "o", "u", "l", "d", "n", "'", "t", " ", "d", "e", "r",
      "i", "v", "e", " ", "a", " ", "u", "s", "e", "f", "u", "l", " ", "a",
      "n", "a", "l", "y", "s", "i", "s", " ", "f", "r", "o", "m", " ", "t",
      "h", "e", " ", "i", "m", "a", "g", "e", "(", "s", ")", ".">>

\* line 325, for an exception whose text is "timeout"
InternalError == <<
      "I", " ", "c", "o", "u", "l", "d", "n", "'", "t", " ", "a", "n", "a",
      "l", "y", "z", "e", " ", "t", "h", "e", " ", "m", "e", "s", "s", "a",
      "g", "e", " ", "d", "u", "e", " ", "t", "o", " ", "a", "n", " ", "i",
      "n", "t", "e", "r", "n", "a", "l", " ", "e", "r", "r", "o", "r", ":",
      " ", "t", "i", "m", "e", "o", "u", "t">>

model_reply_of_empty_as_error(images, raised, resp_text) ==
    IF raised \/ strip(resp_text) = <<>> THEN InternalError
    ELSE strip(resp_text)

\* lines 319-325: model_reply for a call that raised, or returned resp_text,
\* with or without images
model_reply_of(images, raised, resp_text) ==
    IF raised THEN InternalError
    ELSE IF images /\ strip(resp_text) = <<>> THEN ImageFallback
    ELSE strip(resp_text)

(***************************************************************************)
(* The classifier (src/whatsapp/app.py:55-59, 104-106).                    *)
(***************************************************************************)
\* lines 55-59
MISINFO_KEYWORDS == <<
    <<"c", "u", "r", "e">>,
    <<"c", "u", "r", "e", "s">>,
    <<"c", "a", "u", "s", "e", "s">>,
    <<"h", "o", "a", "x">>,
    <<"f", "a", "k", "e">>,
    <<"m", "y", "t", "h">>,
    <<"c", "l", "a", "i", "m">>,
    <<"v", "a", "c", "c", "i", "n", "e">>,
    <<"v", "a", "c", "c", "i", "n", "a", "t", "i", "o", "n">>,
    <<"c", "o", "v", "i", "d">>,
    <<"c", "o", "r", "o", "n", "a", "v", "i", "r", "u", "s">>,
    <<"g", "a", "r", "l", "i", "c">>,
    <<"p", "r", "e", "v", "e", "n", "t">>,
    <<"p", "r", "e", "v", "e", "n", "t", "s">>,
    <<"t", "r", "e", "a", "t", "s">>,
    <<"t", "r", "e", "a", "t", "m", "e", "n", "t">>,
    <<"m", "i", "r", "a", "c", "l", "e">>>>

\* sub in text
contains(text, sub) == \E i \in 0..(Len(text) - Len(sub)) : startswith_at(text, sub, i)

is_claim_like_raw_case(text) ==
    \E k \in DOMAIN MISINFO_KEYWORDS : contains(text, MISINFO_KEYWORDS[k])

\* lines 104-106
is_claim_like(text) ==
    \E k \in DOMAIN MISINFO_KEYWORDS : contains(lower(text), MISINFO_KEYWORDS[k])

(***************************************************************************)
(* extract_text_from_pdf (src/whatsapp/app.py:131-149).  A PDF is known by *)
(* what the libraries make of it: layer, the texts page.extract_text()     *)
(* gives for the pages read before the reader ends or raises (a page with  *)
(* no text gives the empty text); ocr_raises, whether rasterising or OCR   *)
(* raises; ocr, the texts image_to_string gives for the rendered pages.    *)
(***************************************************************************)
\* line 142: the length below which the OCR fallback runs
OcrThreshold == 10

\* lines 135-141: text after the loop over reader.pages
LayerText(layer) == Concat([k \in 1..Len(layer) |-> layer[k] \o <<"\n">>])

NeedsOcrUntrimmed(text) == Len(text) < OcrThreshold

\* line 142
NeedsOcr(text) == Len(strip(text)) < OcrThreshold

\* line 148, for an exception whose text is "no poppler"
PdfOcrError == <<
      "(", "P", "D", "F", " ", "O", "C", "R", " ", "e", "r", "r", "o", "r",
      ":", " ", "n", "o", " ", "p", "o", "p", "p", "l", "e", "r", ")">>

\* lines 143-148: text after the fallback
OcrFallback(text, pdf) ==
    IF pdf.ocr_raises THEN PdfOcrError
    ELSE text \o Concat([k \in 1..Len(pdf.ocr) |-> pdf.ocr[k] \o <<"\n">>])

\* lines 131-149, given the text of the text layer
extract_text_after_layer(text, pdf) ==
    strip(IF NeedsOcr(text) THEN OcrFallback(text, pdf) ELSE text)

\* lines 131-149
extract_text_from_pdf(pdf) == extract_text_after_layer(LayerText(pdf.layer), pdf)

(***************************************************************************)
(* Media download (src/whatsapp/app.py:226-270).  Times are in tenths of a *)
(* second.  A response is known by its status_code, the size and the kind  *)
(* of its content and its Content-Type header (empty when absent).         *)
(***************************************************************************)
\* line 226: max_retries
MaxRetries == 3

\* line 226: backoff = 0.8
Backoff == 8

\* line 232
ResponseOk(r) == r.status_code = 200 /\ r.content.size > 0

\* line 234
HttpError(r) ==
    <<"H", "T", "T", "P", " ">> \o str_int(r.status_code)
        \o <<" ", "l", "e", "n", "=">> \o str_int(r.content.size)

SleepTimeFlat(attempt) == Backoff

\* line 237
SleepTime(attempt) == Backoff * attempt

\* line 229: the loop goes on to another attempt after this one
AttemptsLeft(attempt) == attempt < MaxRetries

\* line 238
DownloadFailed(last_err) == <<"d", "o", "w", "n", "l", "o", "a", "d", "_", "f", "a", "i", "l", "e", "d", ":", " ">> \o last_err

\* line 270
DownloadError(e) == <<"d", "o", "w", "n", "l", "o", "a", "d", "_", "e", "r", "r", "o", "r", ":", " ">> \o e

\* line 252
MissingMediaUrl == <<"m", "i", "s", "s", "i", "n", "g", "_", "m", "e", "d", "i", "a", "_", "u", "r", "l">>

\* int(s) for a text that is a run of digits
RECURSIVE int_str(_)
int_str(s) ==
    IF s = <<>> THEN 0
    ELSE 10 * int_str(SubSeq(s, 1, Len(s) - 1))
            + (CHOOSE d \in 0..9 : DigitChar[d + 1] = s[Len(s)])

\* lines 244-247, for a NumMedia value that is a run of digits or is not a
\* number at all
NumMedia(value) ==
    IF value # <<>> /\ \A k \in DOMAIN value : value[k] \in Range(DigitChar)
    THEN int_str(value)
    ELSE 0

\* line 250
DeclaredType(value) == lower(value)

\* line 256: the type of the response, or the declared one when the
\* response names none
ResponseMime(header, ctype) ==
    lower(strip(split(IF header # <<>> THEN header ELSE ctype, ";")[1]))

\* lines 259-267: the (mime, blob) after the HEIC normalisation
NormaliseHeic(mime, blob) ==
    IF mime \in {<<"i", "m", "a", "g", "e", "/", "h", "e", "i", "c">>, <<"i", "m", "a", "g", "e", "/", "h", "e", "i", "f">>} /\ blob.decodable
    THEN [mime |-> <<"i", "m", "a", "g", "e", "/", "p", "n", "g">>, blob |-> [blob EXCEPT !.format = "png"]]
    ELSE [mime |-> mime, blob |-> blob]

(***************************************************************************)
(* The context of bot() (src/whatsapp/app.py:282-316).                     *)
(***************************************************************************)
MediaNoteOneBased(i, what) ==
    <<"[", "M", "e", "d", "i", "a", " ">> \o str_int(i + 1) \o <<"]", " ">> \o what

\* lines 288 and 295: f"[Media {i}] {what}"
MediaNote(i, what) == <<"[", "M", "e", "d", "i", "a", " ">> \o str_int(i) \o <<"]", " ">> \o what

\* line 288: err or 'empty'
ErrOrEmpty(err) == IF err # <<>> THEN err ELSE <<"e", "m", "p", "t", "y">>

\* line 295
UnsupportedType(mime) == <<"u", "n", "s", "u", "p", "p", "o", "r", "t", "e", "d", " ", "t", "y", "p", "e", ":", " ">> \o mime

\* line 290
IsImageType(mime) == startswith(mime, <<"i", "m", "a", "g", "e", "/">>)

\* line 292
PdfTypes == {
    <<"a", "p", "p", "l", "i", "c", "a", "t", "i", "o", "n", "/", "p", "d", "f">>,
    <<"a", "p", "p", "l", "i", "c", "a", "t", "i", "o", "n", "/", "x", "-", "p", "d", "f">>,
    <<"a", "p", "p", "l", "i", "c", "a", "t", "i", "o", "n", "/", "a", "c", "r", "o", "b", "a", "t">>}

\* line 301
PdfBlock(idx, text) ==
    <<"[", "P", "D", "F", " ">> \o str_int(idx) \o <<" ", "t", "e", "x", "t", "/", "O", "C", "R", "]", "\n">>
        \o (IF strip(text) # <<>> THEN text ELSE <<"(", "n", "o", " ", "t", "e", "x", "t", " ", "f", "o", "u", "n", "d", ")">>)

\* line 308
UrlBlock(u, page_text) ==
    <<"[", "E", "x", "t", "r", "a", "c", "t", "e", "d", " ", "f", "r", "o", "m", " ">> \o u \o <<"]", "\n">> \o page_text

\* line 305: the number of typed URLs that are scraped
MaxScraped == 5

\* a list holding section when items is not empty, the empty list otherwise
ContextBit(items, section) == IF items # <<>> THEN <<section>> ELSE <<>>

\* lines 311-316
combined_context_of(incoming_text, extracted_from_pdfs, media_notes, url_contexts) ==
    strip(Join(<<"\n", "\n">>,
               ContextBit(incoming_text, incoming_text)
                   \o ContextBit(extracted_from_pdfs, Join(<<"\n", "\n">>, extracted_from_pdfs))
                   \o ContextBit(media_notes, Join(<<"\n">>, media_notes))
                   \o ContextBit(url_contexts, Join(<<"\n", "\n">>, url_contexts))))

\* lines 286-295: images, pdf_blobs and media_notes after the loop body has
\* run for the tuple y that iter_media yielded
CollectMedia(y, images, pdf_blobs, media_notes) ==
    IF y.err # <<>> \/ y.blob.size = 0
    THEN [images |-> images, pdf_blobs |-> pdf_blobs,
          media_notes |-> Append(media_notes, MediaNote(y.i, ErrOrEmpty(y.err)))]
    ELSE IF IsImageType(y.mime)
    THEN [images |-> Append(images, [mime |-> y.mime, blob |-> y.blob]),
          pdf_blobs |-> pdf_blobs, media_notes |-> media_notes]
    ELSE IF y.mime \in PdfTypes
    THEN [images |-> images, pdf_blobs |-> Append(pdf_blobs, y.blob),
          media_notes |-> media_notes]
    ELSE [images |-> images, pdf_blobs |-> pdf_blobs,
          media_notes |-> Append(media_notes, MediaNote(y.i, UnsupportedType(y.mime)))]

(***************************************************************************)
(* What the reasoning service is handed (src/whatsapp/app.py:197-223,      *)
(* 318-323): the call shape, the instruction template, the history turns,  *)
(* the images and the user content (a list of no or one text).             *)
(***************************************************************************)
\* line 323
EmptyPlaceholder == <<
      "U", "s", "e", "r", " ", "s", "e", "n", "t", " ", "a", "n", " ", "e",
      "m", "p", "t", "y", " ", "m", "e", "s", "s", "a", "g", "e", ".">>

\* line 220
AdditionalContext(user_text) ==
    <<"A", "d", "d", "i", "t", "i", "o", "n", "a", "l", " ", "u", "s", "e", "r", " ", "c", "o", "n", "t", "e", "x", "t", ":", "\n">> \o user_text

\* line 198: the number of history turns put in the prompt
PromptTurns == 8

\* lines 199 and 215: build_instruction_claim or build_instruction_query
InstructionFor(user_text) == IF is_claim_like(user_text) THEN "claim" ELSE "query"

\* lines 197-206: the prompt of ask_gemini_text
TextPrompt(user_text, history) ==
    [shape |-> "text", instruction |-> InstructionFor(user_text),
     history |-> LastItems(history, PromptTurns), images |-> <<>>,
     user_content |-> <<user_text>>]

\* lines 215-222: the parts of ask_gemini_images
ImageParts(user_text, images) ==
    [shape |-> "images", instruction |-> InstructionFor(user_text),
     history |-> <<>>, images |-> images,
     user_content |-> IF user_text # <<>> THEN <<AdditionalContext(user_text)>> ELSE <<>>]

\* lines 320-323: the call made for a context and the images collected
ServiceCall(combined_context, images, history) ==
    IF images # <<>>
    THEN ImageParts(combined_context, images)
    ELSE TextPrompt(IF combined_context # <<>> THEN combined_context ELSE EmptyPlaceholder,
                    history)

(***************************************************************************)
(* The /verify endpoint (src/aiagent/main.py:29-146).  The JSON the        *)
(* generative model returns is known by what verify_claim reads of it: its *)
(* verdict and its links.  A link is known by whether it is a JSON object, *)
(* whether its "url" is a string, and its "url" and "title" (a missing     *)
(* "url" reads as the empty text).                                         *)
(***************************************************************************)
\* lines 29-33
VERIFY_ALLOWED_DOMAINS == <<
    <<"w", "h", "o", ".", "i", "n", "t">>,
    <<"c", "d", "c", ".", "g", "o", "v">>,
    <<"i", "c", "m", "r", ".", "g", "o", "v", ".", "i", "n">>,
    <<"m", "o", "h", "f", "w", ".", "g", "o", "v", ".", "i", "n">>,
    <<"f", "d", "a", ".", "g", "o", "v">>,
    <<"e", "m", "a", ".", "e", "u", "r", "o", "p", "a", ".", "e", "u">>,
    <<"n", "i", "c", "e", ".", "o", "r", "g", ".", "u", "k">>,
    <<"n", "i", "h", ".", "g", "o", "v">>,
    <<"n", "c", "b", "i", ".", "n", "l", "m", ".", "n", "i", "h", ".", "g", "o", "v">>,
    <<"c", "o", "c", "h", "r", "a", "n", "e", "l", "i", "b", "r", "a", "r", "y", ".", "c", "o", "m">>,
    <<"b", "m", "j", ".", "c", "o", "m">>,
    <<"t", "h", "e", "l", "a", "n", "c", "e", "t", ".", "c", "o", "m">>,
    <<"n", "a", "t", "u", "r", "e", ".", "c", "o", "m">>>>

\* the lowest index at or after i at which sep stands in s, or -1
FindText(s, sep, i) ==
    LET M == {j \in i..(Len(s) - Len(sep)) : startswith_at(s, sep, j)}
    IN  IF M = {} THEN -1 ELSE MinOf(M)

RECURSIVE SplitAt(_, _, _)
\* s.split(sep), at being the index of the first sep in s (-1: none)
SplitAt(s, sep, at) ==
    IF at = -1 THEN <<s>>
    ELSE <<Slice(s, 0, at)>>
         \o SplitAt(Slice(s, at + Len(sep), Len(s)), sep,
                    FindText(Slice(s, at + Len(sep), Len(s)), sep, 0))

\* s.split(sep) for a separator of one or more characters
SplitText(s, sep) == SplitAt(s, sep, FindText(s, sep, 0))

\* the positions of text that re.sub(r"\s+", " ", text) keeps: every
\* non-whitespace character and the first character of every whitespace run
KeptPositions(text) ==
    SelectSeq([i \in 1..Len(text) |-> i],
              LAMBDA i : text[i] \notin Whitespace \/ i = 1 \/ text[i - 1] \notin Whitespace)

\* re.sub(r"\s+", " ", text), given the positions kept
CollapseAt(text, kept) ==
    [k \in 1..Len(kept) |-> IF text[kept[k]] \in Whitespace THEN " " ELSE text[kept[k]]]

\* lines 68-69
normalize(text) == strip(CollapseAt(text, KeptPositions(text)))

\* line 74
DomainListed(domain) ==
    \E k \in DOMAIN VERIFY_ALLOWED_DOMAINS : endswith(domain, VERIFY_ALLOWED_DOMAINS[k])

\* lines 72-76, given url.split('//'): parts[1] raises IndexError, caught
\* at line 75, when the url holds no "//"
PartsAllowed(parts) ==
    IF Len(parts) < 2 THEN FALSE
    ELSE DomainListed(lower(split(parts[2], "/")[1]))

\* lines 71-76
is_allowed_domain(url) == PartsAllowed(SplitText(url, <<"/", "/">>))

\* line 109: the number of links of the result that are looked at
LinksKeep == 3

\* line 114: the number of characters of a title that are kept
TitleKeep == 200

\* lst[:k]
FirstItems(lst, k) == IF Len(lst) <= k THEN lst ELSE SubSeq(lst, 1, k)

\* line 113
LinkUrl(link) == strip(link.url)

\* line 114
LinkTitle(link, url) ==
    FirstChars(strip(IF link.has_title THEN link.title ELSE url), TitleKeep)

\* line 116
LinkValid(url) == url # <<>> /\ is_allowed_domain(url)

\* lines 113-117: valid_links after the loop body has run on a JSON object
AppendIfValid(valid_links, link, url) ==
    IF LinkValid(url)
    THEN Append(valid_links, [title |-> LinkTitle(link, url), url |-> url])
    ELSE valid_links

\* line 120
VerdictNames == {"True", "False", "Misleading", "Unclear"}

\* lines 119-123
VerdictOf(verdict, valid_links) ==
    IF verdict \notin VerdictNames THEN "Unclear"
    ELSE IF valid_links = <<>> /\ verdict # "Unclear" THEN "Unclear"
    ELSE verdict

\* lines 84-89, 133-138 and 141-146: the responses that report no answer
UnclearResp(summary) == [verdict |-> "Unclear", summary |-> summary, links |-> <<>>]

(***************************************************************************)
(* State.                                                                  *)
(***************************************************************************)
VARIABLES
    ck_text,      \* chunk_message: text
    ck_limit,     \* chunk_message: limit
    ck_start,     \* chunk_message: start
    ck_chunks,    \* chunk_message: chunks
    ck_pc,        \* chunk_message: "loop" in the while loop, "done" returned
    au_url,       \* allowed_url: url
    au_host,      \* the host au_url was written around, <<>> if it has none
    au_result,    \* allowed_url: the value returned
    au_pc,        \* allowed_url: "call" before the call, "done" returned
    fu_urls,      \* filter_urls: urls
    fu_keep,      \* filter_urls: keep, the value returned
    fu_pc,        \* filter_urls: "call" before the call, "done" returned
    pp_reply,     \* bot step 5: model_reply
    pp_final,     \* bot step 6: final_reply
    pp_turn,      \* bot step 7: the Assistant turn appended to the history
    pp_sent,      \* bot step 7: the chunks handed to the transport
    pp_pc,        \* bot steps 6-7: "call" before them, "done" after them
    db,           \* the conversations table: user_id -> history
    req,          \* the request each worker handles: its locals and position
    started,      \* the number of requests received so far
    pd_pdf,       \* extract_text_from_pdf: the PDF written to the temp file
    pd_text,      \* extract_text_from_pdf: text
    pd_ocr,       \* extract_text_from_pdf: whether the OCR fallback was invoked
    pd_pc,        \* extract_text_from_pdf: "layer", "check", "done"
    rq_body,      \* one request: the Body value
    rq_num_media, \* one request: the NumMedia value
    rq_media,     \* one request: the MediaUrl{i} and MediaContentType{i} values
    rq_pc,        \* bot: the position of the handler
    rq_incoming_text, \* bot: incoming_text
    rq_history,   \* bot: history
    rq_i,         \* iter_media: i
    rq_attempt,   \* auth_get: attempt
    rq_last_err,  \* auth_get: last_err
    rq_log,       \* the calls made so far for media i: requests.get (arg the
                  \* attempt, ok whether it gave a download) and time.sleep
                  \* (arg the time)
    rq_yield,     \* the tuples iter_media has yielded so far
    rq_images,    \* bot: images
    rq_pdf_blobs, \* bot: pdf_blobs
    rq_media_notes,   \* bot: media_notes
    rq_extracted, \* bot: extracted_from_pdfs
    rq_urls,      \* bot: extract_urls(incoming_text)[:5], those not yet scraped
    rq_url_contexts,  \* bot: url_contexts
    rq_context,   \* bot: combined_context
    rq_call,      \* what the reasoning service was handed
    rq_raised,    \* whether the reasoning call raised
    rq_model_reply,   \* bot: model_reply
    rq_final,     \* bot: final_reply
    rq_sent,      \* the messages put in the response
    vf_text,      \* /verify: request.text
    vf_service,   \* /verify: what the generative model does when called
    vf_claim,     \* verify_claim: claim
    vf_links,     \* verify_claim: the links of result[:3] not yet looked at
    vf_valid,     \* verify_claim: valid_links
    vf_resp,      \* verify_claim: the VerifyResp returned
    vf_pc         \* verify_claim: the position of the handler

chunkVars == <<ck_text, ck_limit, ck_start, ck_chunks, ck_pc>>

urlVars == <<au_url, au_host, au_result, au_pc>>

filterVars == <<fu_urls, fu_keep, fu_pc>>

replyVars == <<pp_reply, pp_final, pp_turn, pp_sent, pp_pc>>

botVars == <<db, req, started>>

pdfVars == <<pd_pdf, pd_text, pd_ocr, pd_pc>>

inputVars == <<rq_body, rq_num_media, rq_media>>

mediaVars == <<rq_i, rq_attempt, rq_last_err, rq_log, rq_yield, rq_images,
               rq_pdf_blobs, rq_media_notes>>

contextVars == <<rq_extracted, rq_urls, rq_url_contexts, rq_context>>

answerVars == <<rq_call, rq_raised, rq_model_reply, rq_final, rq_sent>>

requestVars == <<inputVars, rq_pc, rq_incoming_text, rq_history, mediaVars,
                 contextVars, answerVars>>

verifyVars == <<vf_text, vf_service, vf_claim, vf_links, vf_valid, vf_resp, vf_pc>>

vars == <<chunkVars, urlVars, filterVars, replyVars, botVars, pdfVars, requestVars,
          verifyVars>>

\* chunk_message is not running
ChunkIdle ==
    /\ ck_text = <<>>
    /\ ck_limit = 1
    /\ ck_start = 0
    /\ ck_chunks = <<>>
    /\ ck_pc = "idle"

\* allowed_url is not running
UrlIdle ==
    /\ au_url = <<>>
    /\ au_host = <<>>
    /\ au_result = FALSE
    /\ au_pc = "idle"

\* filter_urls is not running
FilterIdle ==
    /\ fu_urls = <<>>
    /\ fu_keep = <<>>
    /\ fu_pc = "idle"

\* the post-processing step is not running on its own
ReplyIdle ==
    /\ pp_reply = <<>>
    /\ pp_final = <<>>
    /\ pp_turn = <<>>
    /\ pp_sent = <<>>
    /\ pp_pc = "idle"

\* no request has been received
BotIdle ==
    /\ db = <<>>
    /\ req = <<>>
    /\ started = 0

\* no content: an empty body, or the None that stands for a missing blob
NoBlob == [size |-> 0, format |-> "none", decodable |-> FALSE, layer |-> <<>>,
           ocr_raises |-> FALSE, ocr |-> <<>>]

\* a PDF with no page
NoPdf == [size |-> 0, format |-> "pdf", decodable |-> FALSE, layer |-> <<>>,
          ocr_raises |-> FALSE, ocr |-> <<>>]

\* extract_text_from_pdf is not running on its own
PdfIdle ==
    /\ pd_pdf = NoPdf
    /\ pd_text = <<>>
    /\ pd_ocr = FALSE
    /\ pd_pc = "idle"

\* no call of the reasoning service has been made
NoCall == [shape |-> "none", instruction |-> "none", history |-> <<>>,
           images |-> <<>>, user_content |-> <<>>]

\* the locals of bot() before it runs
RequestLocalsInitial ==
    /\ rq_incoming_text = <<>>
    /\ rq_history = <<>>
    /\ rq_i = 0
    /\ rq_attempt = 0
    /\ rq_last_err = <<>>
    /\ rq_log = <<>>
    /\ rq_yield = <<>>
    /\ rq_images = <<>>
    /\ rq_pdf_blobs = <<>>
    /\ rq_media_notes = <<>>
    /\ rq_extracted = <<>>
    /\ rq_urls = <<>>
    /\ rq_url_contexts = <<>>
    /\ rq_context = <<>>
    /\ rq_call = NoCall
    /\ rq_raised = FALSE
    /\ rq_model_reply = <<>>
    /\ rq_final = <<>>
    /\ rq_sent = <<>>

\* the single request is not being followed
RequestIdle ==
    /\ rq_body = <<>>
    /\ rq_num_media = <<>>
    /\ rq_media = <<>>
    /\ rq_pc = "idle"
    /\ RequestLocalsInitial

\* the generative model of /verify has not been called
NoService == [outcome |-> "none", verdict |-> "none", links |-> <<>>]

\* no VerifyResp has been returned
NoResp == [verdict |-> "none", summary |-> "none", links |-> <<>>]

\* no /verify request is being followed
VerifyIdle ==
    /\ vf_text = <<>>
    /\ vf_service = NoService
    /\ vf_claim = <<>>
    /\ vf_links = <<>>
    /\ vf_valid = <<>>
    /\ vf_resp = NoResp
    /\ vf_pc = "idle"

(***************************************************************************)
(* chunk_message run one loop iteration at a time, on every text over a    *)
(* small alphabet and every limit 1..MaxLimit.                             *)
(***************************************************************************)
ChunkAlphabet == {"a", " ", "\n"}

InitChunk ==
    /\ ck_text \in TextsUpTo(ChunkAlphabet, MaxTextLen)
    /\ ck_limit \in 1..MaxLimit
    /\ ck_start = 0
    /\ ck_chunks = <<>>
    /\ ck_pc = "loop"
    /\ UrlIdle /\ FilterIdle /\ ReplyIdle /\ BotIdle /\ PdfIdle /\ RequestIdle /\ VerifyIdle

\* one iteration of the while loop (lines 89-98)
ChunkIter ==
    /\ ck_pc = "loop"
    /\ ck_start < Len(ck_text)
    /\ LET end == ChunkEnd(ck_text, ck_limit, ck_start)
       IN  /\ ck_chunks' = ChunkAppend(ck_chunks, ck_text, ck_start, end)
           /\ ck_start' = end
    /\ UNCHANGED <<ck_text, ck_limit, ck_pc, urlVars, filterVars, replyVars, botVars, pdfVars, requestVars, verifyVars>>

\* loop exit, numbering and return (lines 99-102)
ChunkReturn ==
    /\ ck_pc = "loop"
    /\ ~(ck_start < Len(ck_text))
    /\ ck_chunks' = NumberChunks(ck_chunks)
    /\ ck_pc' = "done"
    /\ UNCHANGED <<ck_text, ck_limit, ck_start, urlVars, filterVars, replyVars, botVars, pdfVars, requestVars, verifyVars>>

NextChunk == ChunkIter \/ ChunkReturn

SpecChunk == InitChunk /\ [][NextChunk]_vars

\* chunk_message is not interrupted: a call runs on until it returns
SpecChunkLive == InitChunk /\ [][NextChunk]_vars /\ WF_vars(NextChunk)

(***************************************************************************)
(* allowed_url applied to URLs written around a known host, and to strings *)
(* that hold no host.                                                      *)
(***************************************************************************)
HostLabels == {
    <<"w", "h", "o">>,
    <<"i", "n", "t">>,
    <<"n", "o", "t", "w", "h", "o">>,
    <<"w", "w", "w">>,
    <<"e", "v", "i", "l">>,
    <<"W", "H", "O">>,
    <<"c", "d", "c">>,
    <<"g", "o", "v">>}

\* the hosts of at most MaxLabels labels, and the empty host
Hosts == {Join(<<".">>, ls) : ls \in UNION {[1..k -> HostLabels] : k \in 0..MaxLabels}}

UrlSchemes == {<<"h", "t", "t", "p", "s">>, <<"h", "t", "t", "p">>}

UrlUserinfos == {<<>>, <<"w", "h", "o", ".", "i", "n", "t">>}

UrlPorts == {<<>>, <<"4", "4", "3">>}

\* path, query or fragment after the authority
UrlTails == {
    <<>>,
    <<"/", "w", "h", "o", ".", "i", "n", "t">>,
    <<"?", "q", "=", "w", "h", "o", ".", "i", "n", "t">>,
    <<"#", "w", "h", "o", ".", "i", "n", "t">>}

\* scheme://userinfo@host:port/tail
RenderUrl(scheme, userinfo, host, port, tail) ==
    scheme \o <<":", "/", "/">>
        \o (IF userinfo = <<>> THEN <<>> ELSE userinfo \o <<"@">>)
        \o host
        \o (IF port = <<>> THEN <<>> ELSE <<":">> \o port)
        \o tail

\* strings without a host: no scheme, no "//", an unmatched bracket
HostlessUrls == {
    <<>>,
    <<"w", "h", "o", ".", "i", "n", "t">>,
    <<"w", "w", "w", ".", "w", "h", "o", ".", "i", "n", "t", "/", "a">>,
    <<"h", "t", "t", "p", "s", ":", "w", "h", "o", ".", "i", "n", "t">>,
    <<"h", "t", "t", "p", "s", ":", "/", "w", "h", "o", ".", "i", "n", "t">>,
    <<"h", "t", "t", "p", "s", ":", "/", "/">>,
    <<"h", "t", "t", "p", "s", ":", "/", "/", "/", "w", "h", "o", ".", "i", "n", "t">>,
    <<"h", "t", "t", "p", "s", ":", "/", "/", "w", "h", "o", ".", "i", "n", "t", "@">>,
    <<"h", "t", "t", "p", "s", ":", "/", "/", ":", "4", "4", "3">>,
    <<"h", "t", "t", "p", ":", "/", "/", "[", "w", "h", "o", ".", "i", "n", "t">>,
    <<"h", "t", "t", "p", ":", "/", "/", "w", "h", "o", ".", "i", "n", "t", "]">>,
    <<"m", "a", "i", "l", "t", "o", ":", "a", "@", "w", "h", "o", ".", "i", "n", "t">>}

InitUrl ==
    /\ \/ /\ au_host \in Hosts
          /\ \E scheme \in UrlSchemes, userinfo \in UrlUserinfos,
                port \in UrlPorts, tail \in UrlTails :
                au_url = RenderUrl(scheme, userinfo, au_host, port, tail)
       \/ /\ au_host = <<>>
          /\ au_url \in HostlessUrls
    /\ au_result = FALSE
    /\ au_pc = "call"
    /\ ChunkIdle /\ FilterIdle /\ ReplyIdle /\ BotIdle /\ PdfIdle /\ RequestIdle /\ VerifyIdle

\* the call allowed_url(url)
AllowedUrlCall ==
    /\ au_pc = "call"
    /\ au_result' = allowed_url(au_url)
    /\ au_pc' = "done"
    /\ UNCHANGED <<au_url, au_host, chunkVars, filterVars, replyVars, botVars, pdfVars, requestVars, verifyVars>>

NextUrl == AllowedUrlCall

SpecUrl == InitUrl /\ [][NextUrl]_vars

\* host, compared without regard to case, is a listed domain or ends with
\* "." and a listed domain
HostIsListed(host) ==
    \E k \in DOMAIN ALLOWED_DOMAINS :
        LET d == ALLOWED_DOMAINS[k]
            h == lower(host)
        IN  \/ h = d
            \/ /\ Len(h) > Len(d) + 1
               /\ h[Len(h) - Len(d)] = "."
               /\ \A i \in 1..Len(d) : h[Len(h) - Len(d) + i] = d[i]

\* C3: allowed_url returns true exactly for the URLs whose host is a listed
\* domain or a dotted subdomain of one; a listed domain elsewhere in the URL
\* or as a mere substring of the host, and a string with no host, give false.
C3_AllowedIffHostListed ==
    au_pc = "done" => (au_result <=> HostIsListed(au_host))

\* C3 witness: a URL that names a listed domain in its userinfo and path and
\* as a substring of its host, and is rejected
C3_Witness ==
    /\ au_pc = "done"
    /\ au_host = <<"n", "o", "t", "w", "h", "o", ".", "i", "n", "t", ".", "e", "v", "i", "l">>
    /\ au_url = <<"h", "t", "t", "p", "s", ":", "/", "/", "w", "h", "o", ".", "i", "n", "t", "@", "n", "o", "t", "w", "h", "o", ".", "i", "n", "t", ".", "e", "v", "i", "l", "/", "w", "h", "o", ".", "i", "n", "t">>
    /\ au_result = FALSE

(***************************************************************************)
(* filter_urls applied to every sequence of at most MaxUrls URLs, some     *)
(* allow-listed, some not, some with the punctuation that follows a URL    *)
(* in a sentence.                                                          *)
(***************************************************************************)
UrlPool == {
    <<"h", "t", "t", "p", "s", ":", "/", "/", "w", "h", "o", ".", "i", "n", "t", "/", "a">>,
    <<"h", "t", "t", "p", "s", ":", "/", "/", "w", "h", "o", ".", "i", "n", "t", "/", "a", ".">>,
    <<"h", "t", "t", "p", "s", ":", "/", "/", "c", "d", "c", ".", "g", "o", "v", "/", "b">>,
    <<"h", "t", "t", "p", "s", ":", "/", "/", "e", "v", "i", "l", ".", "c", "o", "m", "/", "x">>,
    <<"h", "t", "t", "p", "s", ":", "/", "/", "n", "h", "s", ".", "u", "k", ".">>,
    <<"h", "t", "t", "p", ":", "/", "/", "b", "m", "j", ".", "c", "o", "m", "/", "c", ";">>}

InitFilter ==
    /\ fu_urls \in UNION {[1..k -> UrlPool] : k \in 0..MaxUrls}
    /\ fu_keep = <<>>
    /\ fu_pc = "call"
    /\ ChunkIdle /\ UrlIdle /\ ReplyIdle /\ BotIdle /\ PdfIdle /\ RequestIdle /\ VerifyIdle

\* the call filter_urls(urls, limit=3)
FilterUrlsCall ==
    /\ fu_pc = "call"
    /\ fu_keep' = filter_urls(fu_urls, 3)
    /\ fu_pc' = "done"
    /\ UNCHANGED <<fu_urls, chunkVars, urlVars, replyVars, botVars, pdfVars, requestVars, verifyVars>>

NextFilter == FilterUrlsCall

SpecFilter == InitFilter /\ [][NextFilter]_vars

(***************************************************************************)
(* Steps 6 and 7 of bot(), the store left aside, applied to every          *)
(* generated text made of at most MaxFragments fragments and to a long     *)
(* one, each stripped as ask_gemini_text returns it.                       *)
(***************************************************************************)
ReplyFragments == {
    <<"o", "k">>,
    <<"\n">>,
    <<"S", "o", "u", "r", "c", "e", "s", ":">>,
    <<"-", " ">>,
    <<"h", "t", "t", "p", "s", ":", "/", "/", "w", "h", "o", ".", "i", "n", "t", "/", "a">>,
    <<"h", "t", "t", "p", "s", ":", "/", "/", "e", "v", "i", "l", ".", "c", "o", "m", "/", "x">>}

\* a long answer: WHATSAPP_MSG_LIMIT characters without a space, then more
LongText ==
    [i \in 1..(WHATSAPP_MSG_LIMIT + 101) |->
        IF i <= WHATSAPP_MSG_LIMIT THEN "a" ELSE IF i = WHATSAPP_MSG_LIMIT + 1 THEN " " ELSE "b"]

InitReply ==
    /\ \/ \E fs \in UNION {[1..k -> ReplyFragments] : k \in 0..MaxFragments} :
             pp_reply = strip(Concat(fs))
       \/ pp_reply = LongText
    /\ pp_final = <<>>
    /\ pp_turn = <<>>
    /\ pp_sent = <<>>
    /\ pp_pc = "call"
    /\ ChunkIdle /\ UrlIdle /\ FilterIdle /\ BotIdle /\ PdfIdle /\ RequestIdle /\ VerifyIdle

\* lines 327-343: the sources filtered, the Assistant turn, the chunks
PostProcess ==
    /\ pp_pc = "call"
    /\ pp_final' = final_reply_of(pp_reply)
    /\ pp_turn' = AssistantTurn(pp_final')
    /\ pp_sent' = chunk_message(pp_final', WHATSAPP_MSG_LIMIT)
    /\ pp_pc' = "done"
    /\ UNCHANGED <<pp_reply, chunkVars, urlVars, filterVars, botVars, pdfVars, requestVars, verifyVars>>

NextReply == PostProcess

SpecReply == InitReply /\ [][NextReply]_vars

(***************************************************************************)
(* The webhook: requests of several users handled by concurrent workers.   *)
(* A worker reads the history when its request arrives, asks the reasoning *)
(* service, and writes the history back before it replies.                 *)
(***************************************************************************)
Users == {"alice", "bob"}

Workers == {1, 2}

\* the Body of an inbound message: none (media only), or a text
Bodies == {<<>>, <<" ", "c", "u", "r", "e", "?", " ">>}

\* the instructed format, citing one domain off the list and two on it
InstructedText == <<
      "V", "e", "r", "d", "i", "c", "t", ":", " ", "F", "a", "l", "s", "e",
      "\n", "S", "u", "m", "m", "a", "r", "y", ":", " ", "n", "o", ".",
      "\n", "S", "o", "u", "r", "c", "e", "s", ":", "\n", "-", " ", "h",
      "t", "t", "p", "s", ":", "/", "/", "e", "v", "i", "l", ".", "c", "o",
      "m", "/", "x", "\n", "-", " ", "h", "t", "t", "p", "s", ":", "/",
      "/", "w", "w", "w", ".", "w", "h", "o", ".", "i", "n", "t", "/", "a",
      "\n", "-", " ", "h", "t", "t", "p", "s", ":", "/", "/", "c", "d",
      "c", ".", "g", "o", "v", "/", "b">>

\* what a call of the reasoning service does: it returns a text (here the
\* instructed format) or raises; images tells which of ask_gemini_images
\* and ask_gemini_text was called
ServiceOutcomes == {
    [images |-> FALSE, raised |-> FALSE, resp_text |-> InstructedText],
    [images |-> FALSE, raised |-> TRUE, resp_text |-> <<>>]}

\* the final_reply of lines 318-335 for each outcome of the call
FinalReplies ==
    {final_reply_of(model_reply_of(o.images, o.raised, o.resp_text)) : o \in ServiceOutcomes}

\* a worker with no request
NoRequest ==
    [pc |-> "idle", user_id |-> "", incoming_text |-> <<>>, history |-> <<>>,
     final_reply |-> <<>>, sent |-> <<>>]

Init ==
    /\ db = <<>>
    /\ req = [w \in Workers |-> NoRequest]
    /\ started = 0
    /\ ChunkIdle /\ UrlIdle /\ FilterIdle /\ ReplyIdle /\ PdfIdle /\ RequestIdle /\ VerifyIdle

\* lines 275-280: a request arrives; the worker reads From and Body, loads
\* the history and appends the User turn
BotBegin(w) ==
    /\ req[w].pc \in {"idle", "done"}
    /\ started < MaxRequests
    /\ \E user_id \in Users, body \in Bodies :
          LET incoming_text == strip(body)
          IN  req' = [req EXCEPT ![w] =
                        [pc |-> "ask", user_id |-> user_id,
                         incoming_text |-> incoming_text,
                         history |-> Append(get_history(db, user_id), UserTurn(incoming_text)),
                         final_reply |-> <<>>, sent |-> <<>>]]
    /\ started' = started + 1
    /\ UNCHANGED <<db, chunkVars, urlVars, filterVars, replyVars, pdfVars, requestVars, verifyVars>>

\* lines 282-335: media, context, the reasoning call (which returns a text
\* or raises) and the filtering of the sources
BotAsk(w) ==
    /\ req[w].pc = "ask"
    /\ \E final_reply \in FinalReplies :
          req' = [req EXCEPT ![w].pc = "save", ![w].final_reply = final_reply]
    /\ UNCHANGED <<db, started, chunkVars, urlVars, filterVars, replyVars, pdfVars, requestVars, verifyVars>>

\* lines 337-343: the Assistant turn is appended, the history saved and the
\* reply sent in chunks
BotFinish(w) ==
    /\ req[w].pc = "save"
    /\ LET history == Append(req[w].history, AssistantTurn(req[w].final_reply))
       IN  /\ db' = save_history(db, req[w].user_id, history)
           /\ req' = [req EXCEPT ![w].pc = "done",
                                 ![w].history = history,
                                 ![w].sent = chunk_message(req[w].final_reply,
                                                           WHATSAPP_MSG_LIMIT)]
    /\ UNCHANGED <<started, chunkVars, urlVars, filterVars, replyVars, pdfVars, requestVars, verifyVars>>

Next == \E w \in Workers : BotBegin(w) \/ BotAsk(w) \/ BotFinish(w)

Spec == Init /\ [][Next]_vars

(***************************************************************************)
(* Properties of the conversation memory (checked under Spec).             *)
(***************************************************************************)
\* worker w handles a request and no other request has written the history
\* of its user since w read it
HandledAlone(w) ==
    /\ req[w].pc = "save"
    /\ req[w].history =
          Append(get_history(db, req[w].user_id), UserTurn(req[w].incoming_text))

\* C9, stated for one more request: when a request that was handled alone
\* ends, get_history returns the last 20 of the turns it returned before
\* followed by the request's User turn and Assistant turn, one entry each.
\* From the empty history this gives min(N, 20) entries after N turns.
C9_LastTwentyTurns ==
    [][\A w \in Workers :
          (HandledAlone(w) /\ req'[w].pc = "done") =>
              get_history(db', req[w].user_id) =
                  LastItems(get_history(db, req[w].user_id)
                                \o <<UserTurn(req[w].incoming_text),
                                     AssistantTurn(req[w].final_reply)>>,
                            HistoryKeep)]_vars

\* C10: the history of every user holds at most 20 entries, and an entry
\* that is an Assistant turn holds at most 1000 characters of reply.
C10_HistoryBounded ==
    \A u \in DOMAIN db :
        LET history == get_history(db, u)
            prefix == <<"A", "s", "s", "i", "s", "t", "a", "n", "t", ":", " ">>
        IN  /\ Len(history) <= HistoryKeep
            /\ \A k \in 1..Len(history) :
                  startswith(history[k], prefix)
                      => Len(history[k]) <= Len(prefix) + AssistantBudget

\* C11: whenever a request writes the history, the row of its user becomes
\* exactly the list that request built from its own read (its last 20
\* entries, joined), whatever another request of the same user has written
\* since that read, and the rows of the other users stay as they were: the
\* later writer wins, and the store never holds a merge of two writes.
C11_LastWriterWins ==
    [][\A w \in Workers :
          (req[w].pc = "save" /\ req'[w].pc = "done") =>
              /\ DOMAIN db' = DOMAIN db \cup {req[w].user_id}
              /\ db'[req[w].user_id] =
                    Join(<<"\n">>,
                         LastItems(Append(req[w].history,
                                          AssistantTurn(req[w].final_reply)),
                                   HistoryKeep))
              /\ \A u \in DOMAIN db \ {req[w].user_id} : db'[u] = db[u]]_vars

\* C11 witness: two requests of alice, one with a text and one without,
\* both read the empty history and both have finished; the stored history
\* holds a single User turn, and the User turn of one of them is lost
C11_Witness ==
    /\ req[1].pc = "done" /\ req[2].pc = "done"
    /\ req[1].user_id = "alice" /\ req[2].user_id = "alice"
    /\ req[1].incoming_text # req[2].incoming_text
    /\ req[1].history[1] = UserTurn(req[1].incoming_text)
    /\ req[2].history[1] = UserTurn(req[2].incoming_text)
    /\ \E w \in Workers :
          /\ db["alice"] = Join(<<"\n">>, req[w].history)
          /\ \A k \in DOMAIN get_history(db, "alice") :
                get_history(db, "alice")[k] # UserTurn(req[3 - w].incoming_text)

(***************************************************************************)
(* Properties of filter_urls (checked under SpecFilter).                   *)
(***************************************************************************)
\* the position in s of the first element equal to x
FirstPos(s, x) == MinOf({i \in 1..Len(s) : s[i] = x})

\* keep is the first three (or all, if fewer) distinct allow-listed
\* elements of s: at most three, allow-listed, distinct, in the order of
\* their first occurrence, none before the last kept one left out
FirstThreeAllowed(s, keep) ==
    /\ Len(keep) <= 3
    /\ \A k \in 1..Len(keep) : allowed_url(keep[k]) /\ keep[k] \in Range(s)
    /\ \A j, k \in 1..Len(keep) : j < k => FirstPos(s, keep[j]) < FirstPos(s, keep[k])
    /\ LET last == IF Len(keep) = 3 THEN FirstPos(s, keep[3]) ELSE Len(s)
       IN  \A i \in 1..last : allowed_url(s[i]) => s[i] \in Range(keep)

\* C4 as stated: filter_urls returns the first three distinct allow-listed
\* URLs of the sequence it is given.
C4_FirstThreeOfSequence ==
    fu_pc = "done" => FirstThreeAllowed(fu_urls, fu_keep)

\* C4 as amended: filter_urls returns the first three distinct allow-listed
\* URLs of the sequence once the trailing . , ) ; of each URL are removed.
C4_FirstThreeOfStripped ==
    fu_pc = "done" =>
        FirstThreeAllowed([i \in 1..Len(fu_urls) |-> rstrip(fu_urls[i], TrailingPunctuation)],
                          fu_keep)

\* C4 witness: five URLs, three kept, a fourth allow-listed one left out and
\* a duplicate met on the way
C4_Witness ==
    /\ fu_pc = "done"
    /\ Len(fu_urls) = 5
    /\ Len(fu_keep) = 3
    /\ \E i, j \in 1..5 : i < j /\ fu_urls[i] = fu_urls[j] /\ fu_urls[i] \in Range(fu_keep)
    /\ \E i \in 1..5 : /\ allowed_url(rstrip(fu_urls[i], TrailingPunctuation))
                       /\ rstrip(fu_urls[i], TrailingPunctuation) \notin Range(fu_keep)

(***************************************************************************)
(* Properties of the reply post-processing (checked under SpecReply).      *)
(***************************************************************************)
\* the indices at which the literal text "Sources:" stands in text
SourcesAt(text) ==
    {i \in 0..(Len(text) - 1) : startswith_at(text, SourcesMarker, i)}

\* the text that follows the first "Sources:" of text, <<>> if there is none
SourcesSection(text) ==
    IF SourcesAt(text) = {} THEN <<>>
    ELSE Slice(text, MinOf(SourcesAt(text)) + Len(SourcesMarker), Len(text))

\* the text before the first "Sources:" of text
BeforeSources(text) ==
    IF SourcesAt(text) = {} THEN text ELSE Slice(text, 0, MinOf(SourcesAt(text)))

\* C1: every URL in the Sources section of the final reply is accepted by
\* allowed_url (the section may hold no URL at all).
C1_SourcesAllowListed ==
    pp_pc = "done" =>
        LET listed == extract_urls(SourcesSection(pp_final))
        IN  \A k \in 1..Len(listed) : allowed_url(rstrip(listed[k], TrailingPunctuation))

\* C2: when the generated text holds an allow-listed URL, the final reply is
\* the text before the first "Sources:" followed by one rendered block of
\* the filtered URLs, and so holds "Sources:" exactly once.
C2_OneSourcesBlock ==
    (pp_pc = "done" /\ filter_urls(extract_urls(pp_reply), 3) # <<>>) =>
        /\ pp_final = strip(BeforeSources(pp_reply))
                         \o SourcesFooter(filter_urls(extract_urls(pp_reply), 3))
        /\ Cardinality(SourcesAt(pp_final)) = 1

(***************************************************************************)
(* Properties of chunk_message (checked under SpecChunk).                  *)
(***************************************************************************)
\* the marker "(k/total) " written out, for one-digit k and total
MarkerText(k, total) == <<"(", DigitChar[k + 1], "/", DigitChar[total + 1], ")", " ">>

\* the chunks with the marker characters of each removed
WithoutMarkers(chunks) ==
    IF Len(chunks) > 1
    THEN [k \in 1..Len(chunks) |->
            SubSeq(chunks[k], Len(MarkerText(k, Len(chunks))) + 1, Len(chunks[k]))]
    ELSE chunks

\* the first position at or after pos (1-based) that holds no whitespace
SkipWhitespace(text, pos) ==
    LET p == FirstWhere(text, Whitespace, FALSE, pos, Len(text))
    IN  IF p = 0 THEN Len(text) + 1 ELSE p

RECURSIVE SlicesInOrder(_, _, _)
\* text is pieces[1], pieces[2], ... in order, with nothing but whitespace
\* before, between and after them
SlicesInOrder(text, pos, pieces) ==
    LET p == SkipWhitespace(text, pos)
    IN  IF pieces = <<>> THEN p = Len(text) + 1
        ELSE /\ p + Len(Head(pieces)) - 1 <= Len(text)
             /\ SubSeq(text, p, p + Len(Head(pieces)) - 1) = Head(pieces)
             /\ SlicesInOrder(text, p + Len(Head(pieces)), Tail(pieces))

\* C5 as stated: the chunks of chunk_message, markers removed, concatenate
\* to exactly the trimmed input text.
C5_ConcatIsTrimmedText ==
    ck_pc = "done" => Concat(WithoutMarkers(ck_chunks)) = strip(ck_text)

\* C5 as amended: the chunks, markers removed, are consecutive slices of the
\* input in order, each trimmed; only whitespace at the chunk boundaries
\* (and around the text) is missing from their concatenation.
C5_ChunksAreTrimmedSlices ==
    ck_pc = "done" =>
        /\ SlicesInOrder(ck_text, 1, WithoutMarkers(ck_chunks))
        /\ \A k \in 1..Len(ck_chunks) :
              WithoutMarkers(ck_chunks)[k] = strip(WithoutMarkers(ck_chunks)[k])

\* C5 witness: a text was split at a space, which the chunks no longer hold
C5_Witness ==
    /\ ck_pc = "done"
    /\ Len(ck_chunks) = 2
    /\ Len(Concat(WithoutMarkers(ck_chunks))) < Len(strip(ck_text))

\* C6: every chunk returned by chunk_message, marker included, is at most
\* limit characters long.
C6_ChunkWithinLimit ==
    ck_pc = "done" => \A k \in 1..Len(ck_chunks) : Len(ck_chunks[k]) <= ck_limit

\* position b (0-based, 0 < b < len) separates two characters of one word
MidWord(text, b) == text[b] \notin Whitespace /\ text[b + 1] \notin Whitespace

\* a whitespace character lies after position start in the window
\* [start, min(start+limit, n)), so that a chunk could end there
WindowHasWhitespace(text, limit, start) ==
    \E i \in (start + 1)..(Min(start + limit, Len(text)) - 1) :
        text[i + 1] \in Whitespace

\* C7: a loop iteration that ends a chunk inside the text does not cut a
\* word when its window holds a space, tab or line break, and cuts at the
\* limit only when the window holds none.
C7_NoMidWordSplit ==
    [][(ck_pc = "loop" /\ ck_pc' = "loop" /\ ck_start' < Len(ck_text)) =>
          IF WindowHasWhitespace(ck_text, ck_limit, ck_start)
          THEN ~MidWord(ck_text, ck_start')
          ELSE ck_start' = ck_start + ck_limit]_vars

\* C8: with more than one chunk the k-th starts with "(k/total) ", total
\* being the number of chunks; a single chunk is the trimmed text with no
\* marker; no chunk is empty, nor is the text after a marker.
C8_Markers ==
    ck_pc = "done" =>
        /\ Len(ck_chunks) > 1 =>
              \A k \in 1..Len(ck_chunks) :
                 /\ startswith(ck_chunks[k], MarkerText(k, Len(ck_chunks)))
                 /\ Len(ck_chunks[k]) > Len(MarkerText(k, Len(ck_chunks)))
        /\ Len(ck_chunks) = 1 => ck_chunks[1] = strip(ck_text)
        /\ \A k \in 1..Len(ck_chunks) : ck_chunks[k] # <<>>

\* C20: every iteration of the loop moves start forward, start never passes
\* the end of the text, and the call returns.
C20_ChunkLoopTerminates ==
    /\ [][(ck_pc = "loop" /\ ck_pc' = "loop") => ck_start' > ck_start]_vars
    /\ [](ck_start <= Len(ck_text))
    /\ <>(ck_pc = "done")

\* C20 witness: a call has returned whose text is longer than the limit,
\* begins with a space and ends with whitespace only
C20_Witness ==
    /\ ck_pc = "done"
    /\ Len(ck_text) > ck_limit
    /\ ck_text[1] = " "
    /\ ck_text[Len(ck_text)] = " " /\ ck_text[Len(ck_text) - 1] = "\n"
    /\ ck_start = Len(ck_text)

\* C8 witness: a text returned as three numbered chunks
C8_Witness == ck_pc = "done" /\ Len(ck_chunks) = 3

(***************************************************************************)
(* extract_text_from_pdf on every PDF of at most MaxPages pages whose text *)
(* layer holds a few letters and spaces a page, with an OCR that raises,   *)
(* finds no page or reads one page.                                        *)
(***************************************************************************)
\* what page.extract_text() gives for a page
PdfPageTexts == {
    <<>>,
    <<"a">>,
    <<"a", "a">>,
    <<"a", "a", "a">>,
    <<"a", " ", "a">>,
    <<" ", "a", "a">>,
    <<"a", "a", " ">>,
    <<" ", " ">>}

\* what the OCR fallback would do: ocr_raises and ocr
OcrOutcomes == {
    [ocr_raises |-> TRUE, ocr |-> <<>>],
    [ocr_raises |-> FALSE, ocr |-> <<>>],
    [ocr_raises |-> FALSE, ocr |-> <<<<"s", "c", "a", "n">>>>]}

InitPdf ==
    /\ \E layer \in UNION {[1..k -> PdfPageTexts] : k \in 0..MaxPages},
          o \in OcrOutcomes :
          pd_pdf = [size |-> 1, format |-> "pdf", decodable |-> FALSE, layer |-> layer,
                    ocr_raises |-> o.ocr_raises, ocr |-> o.ocr]
    /\ pd_text = <<>>
    /\ pd_ocr = FALSE
    /\ pd_pc = "layer"
    /\ ChunkIdle /\ UrlIdle /\ FilterIdle /\ ReplyIdle /\ BotIdle /\ RequestIdle /\ VerifyIdle

\* lines 135-141: the text layer is read
PdfReadLayer ==
    /\ pd_pc = "layer"
    /\ pd_text' = LayerText(pd_pdf.layer)
    /\ pd_pc' = "check"
    /\ UNCHANGED <<pd_pdf, pd_ocr, chunkVars, urlVars, filterVars, replyVars, botVars, requestVars, verifyVars>>

\* lines 142-149: the text is too short, the pages are rasterised and read
PdfOcr ==
    /\ pd_pc = "check"
    /\ NeedsOcr(pd_text)
    /\ pd_ocr' = TRUE
    /\ pd_text' = strip(OcrFallback(pd_text, pd_pdf))
    /\ pd_pc' = "done"
    /\ UNCHANGED <<pd_pdf, chunkVars, urlVars, filterVars, replyVars, botVars, requestVars, verifyVars>>

\* lines 142 and 149: the text is long enough and is returned
PdfReturn ==
    /\ pd_pc = "check"
    /\ ~NeedsOcr(pd_text)
    /\ pd_text' = strip(pd_text)
    /\ pd_pc' = "done"
    /\ UNCHANGED <<pd_pdf, pd_ocr, chunkVars, urlVars, filterVars, replyVars, botVars, requestVars, verifyVars>>

NextPdf == PdfReadLayer \/ PdfOcr \/ PdfReturn

SpecPdf == InitPdf /\ [][NextPdf]_vars

\* the characters of the text layer of pdf, page after page
LayerChars(pdf) == Concat(pdf.layer)

\* the number of non-whitespace characters of text
NonWhitespaceCount(text) == Cardinality({i \in DOMAIN text : text[i] \notin Whitespace})

\* the length of text from its first to its last non-whitespace character
TrimmedLength(text) ==
    LET P == {i \in DOMAIN text : text[i] \notin Whitespace}
    IN  IF P = {} THEN 0
        ELSE (CHOOSE i \in P : \A j \in P : j <= i) - (CHOOSE i \in P : \A j \in P : i <= j) + 1

\* C18 as stated: the OCR fallback is invoked exactly when the text layer
\* holds fewer than 10 non-whitespace characters.
C18_OcrIffFewNonWhitespace ==
    pd_pc = "done" => (pd_ocr <=> NonWhitespaceCount(LayerChars(pd_pdf)) < 10)

\* C18 amended: the OCR fallback is invoked exactly when the text of the
\* text layer, each page followed by a line break, is shorter than 10
\* characters once its leading and trailing whitespace is removed; the
\* whitespace inside it, the line breaks between pages included, counts.
C18_OcrIffTrimmedTextShort ==
    pd_pc = "done" =>
        (pd_ocr <=>
            TrimmedLength(Join(<<"\n">>, pd_pdf.layer \o <<<<>>>>)) < 10)

\* C18 witness: a text layer of fewer than 10 non-whitespace characters for
\* which the fallback was not invoked, and the layer text was returned
C18_Witness ==
    /\ pd_pc = "done"
    /\ ~pd_ocr
    /\ NonWhitespaceCount(LayerChars(pd_pdf)) < 10
    /\ pd_text = strip(Join(<<"\n">>, pd_pdf.layer))

(***************************************************************************)
(* One request followed step by step through bot(): the media loop with    *)
(* the retries of auth_get, the PDF texts, the scraped URLs, the context,  *)
(* the reasoning call and the reply.  Every download attempt can succeed,  *)
(* answer with an error or an empty body, or raise; a scrape gives a text  *)
(* or nothing; the reasoning service answers, answers with no text, or     *)
(* raises.  SpecMedia follows the media loop for every request that        *)
(* declares at most MaxMedia media; SpecRequest follows the whole handler  *)
(* for the requests of RequestsFollowed.                                   *)
(***************************************************************************)
\* the From value of the request
RequestUser == "alice"

TwilioUrl == <<"h", "t", "t", "p", "s", ":", "/", "/", "a", "p", "i", ".", "t", "w", "i", "l", "i", "o", ".", "c", "o", "m", "/", "m">>

TypePng == <<"i", "m", "a", "g", "e", "/", "p", "n", "g">>

TypeHeic == <<"i", "m", "a", "g", "e", "/", "h", "e", "i", "c">>

TypePdf == <<"A", "p", "p", "l", "i", "c", "a", "t", "i", "o", "n", "/", "P", "D", "F">>

TypeText == <<"t", "e", "x", "t", "/", "p", "l", "a", "i", "n">>

ItemPng == [url |-> TwilioUrl, ctype |-> TypePng]

ItemHeic == [url |-> TwilioUrl, ctype |-> TypeHeic]

ItemPdf == [url |-> TwilioUrl, ctype |-> TypePdf]

ItemText == [url |-> TwilioUrl, ctype |-> TypeText]

ItemNoUrl == [url |-> <<>>, ctype |-> TypePng]

\* a media reference: its MediaUrl{i} (empty when missing) and its
\* MediaContentType{i}
MediaItems == {ItemPng, ItemHeic, ItemPdf, ItemText, ItemNoUrl}

PngBlob == [size |-> 4, format |-> "png", decodable |-> TRUE, layer |-> <<>>,
            ocr_raises |-> FALSE, ocr |-> <<>>]

\* a HEIC image that Pillow opens, and one that it does not
HeicBlobs == {
    [size |-> 4, format |-> "heic", decodable |-> TRUE, layer |-> <<>>,
     ocr_raises |-> FALSE, ocr |-> <<>>],
    [size |-> 4, format |-> "heic", decodable |-> FALSE, layer |-> <<>>,
     ocr_raises |-> FALSE, ocr |-> <<>>]}

\* a PDF with a text layer
TextPdf == [size |-> 9, format |-> "pdf", decodable |-> FALSE,
            layer |-> <<<<"m", "y", "t", "h", ":", " ", "g", "a", "r", "l", "i", "c", " ", "c", "u", "r", "e", "s">>>>,
            ocr_raises |-> FALSE, ocr |-> <<>>]

\* a scanned PDF: one page with no text layer, read by the OCR
ScannedPdf == [size |-> 9, format |-> "pdf", decodable |-> FALSE,
               layer |-> <<<<>>>>,
               ocr_raises |-> FALSE, ocr |-> <<<<"s", "c", "a", "n">>>>]

TextBlob == [size |-> 2, format |-> "txt", decodable |-> FALSE, layer |-> <<>>,
             ocr_raises |-> FALSE, ocr |-> <<>>]

\* the responses with status 200 and a body that the media of a declared
\* type is served with
ServedFor(ctype) ==
    CASE ctype = TypePng -> {[status_code |-> 200, header |-> <<>>, content |-> PngBlob]}
      [] ctype = TypeHeic ->
            {[status_code |-> 200, header |-> <<>>, content |-> b] : b \in HeicBlobs}
      [] ctype = TypePdf ->
            {[status_code |-> 200,
              header |-> <<"a", "p", "p", "l", "i", "c", "a", "t", "i", "o", "n", "/", "p", "d", "f", ";", " ", "c", "h", "a", "r", "s", "e", "t", "=", "b", "i", "n", "a", "r", "y">>,
              content |-> b] : b \in {TextPdf, ScannedPdf}}
      [] OTHER -> {[status_code |-> 200,
                    header |-> <<"t", "e", "x", "t", "/", "p", "l", "a", "i", "n", ";", " ", "c", "h", "a", "r", "s", "e", "t", "=", "u", "t", "f", "-", "8">>,
                    content |-> TextBlob]}

\* the responses that are not a download: an error status, an empty body
FailedResponses == {
    [status_code |-> 500, header |-> <<>>, content |-> [NoBlob EXCEPT !.size = 21]],
    [status_code |-> 200, header |-> <<>>, content |-> NoBlob]}

\* the text of the exception requests.get raises
GetException == <<"t", "i", "m", "e", "o", "u", "t">>

\* what extract_text_from_url returns: nothing (also on failure) or a text
PageTexts == {<<>>, <<"g", "a", "r", "l", "i", "c", " ", "c", "u", "r", "e", "s">>}

\* what the reasoning service answers when it does not raise
ResponseTexts == {<<>>, InstructedText}

\* the requests followed through the whole handler: text only, media only,
\* both, and neither
RequestsFollowed == {
    [body |-> <<>>, num_media |-> <<"0">>, media |-> <<>>],
    [body |-> <<" ", "h", "i", " ">>, num_media |-> <<"0">>, media |-> <<>>],
    [body |-> <<"V", "a", "c", "c", "i", "n", "e", "?", " ", "h", "t", "t", "p", "s", ":", "/", "/", "w", "h", "o", ".", "i", "n", "t", "/", "a">>, num_media |-> <<"0">>,
     media |-> <<>>],
    [body |-> <<>>, num_media |-> <<"1">>, media |-> <<ItemPng>>],
    [body |-> <<>>, num_media |-> <<"x">>, media |-> <<ItemPng>>],
    [body |-> <<" ", "h", "i", " ">>, num_media |-> <<"1">>, media |-> <<ItemPdf>>],
    [body |-> <<>>, num_media |-> <<"1">>, media |-> <<ItemText>>],
    [body |-> <<" ", "h", "i", " ">>, num_media |-> <<"2">>, media |-> <<ItemNoUrl, ItemHeic>>],
    [body |-> <<"V", "a", "c", "c", "i", "n", "e", "?", " ", "h", "t", "t", "p", "s", ":", "/", "/", "w", "h", "o", ".", "i", "n", "t", "/", "a">>, num_media |-> <<"2">>,
     media |-> <<ItemPdf, ItemPng>>]}

InitRequest ==
    /\ \E r \in RequestsFollowed :
          /\ rq_body = r.body
          /\ rq_num_media = r.num_media
          /\ rq_media = r.media
    /\ rq_pc = "begin"
    /\ RequestLocalsInitial
    /\ ChunkIdle /\ UrlIdle /\ FilterIdle /\ ReplyIdle /\ BotIdle /\ PdfIdle /\ VerifyIdle

InitMedia ==
    /\ rq_body = <<>>
    /\ rq_media \in UNION {[1..k -> MediaItems] : k \in 0..MaxMedia}
    /\ rq_num_media \in {str_int(Len(rq_media)), <<"x">>}
    /\ rq_pc = "begin"
    /\ RequestLocalsInitial
    /\ ChunkIdle /\ UrlIdle /\ FilterIdle /\ ReplyIdle /\ BotIdle /\ PdfIdle /\ VerifyIdle

\* lines 275-280
ReqBegin ==
    /\ rq_pc = "begin"
    /\ rq_incoming_text' = strip(rq_body)
    /\ rq_history' = Append(get_history(db, RequestUser), UserTurn(rq_incoming_text'))
    /\ rq_pc' = "media"
    /\ UNCHANGED <<inputVars, mediaVars, contextVars, answerVars,
                   chunkVars, urlVars, filterVars, replyVars, botVars, pdfVars, verifyVars>>

\* line 249: MediaUrl{i}, None when the request does not hold it
MediaUrlAt(i) == IF i < Len(rq_media) THEN rq_media[i + 1].url ELSE <<>>

\* line 250
MediaTypeAt(i) == IF i < Len(rq_media) THEN DeclaredType(rq_media[i + 1].ctype) ELSE <<>>

\* the tuple y is yielded, the loop body of bot runs on it (lines 286-295)
\* and iter_media goes on to the next index
YieldMedia(y) ==
    \E c \in {CollectMedia(y, rq_images, rq_pdf_blobs, rq_media_notes)} :
        /\ rq_yield' = Append(rq_yield, y)
        /\ rq_images' = c.images
        /\ rq_pdf_blobs' = c.pdf_blobs
        /\ rq_media_notes' = c.media_notes
        /\ rq_i' = rq_i + 1
        /\ rq_pc' = "media"

\* lines 248-253: the reference holds no URL
MediaMissing ==
    /\ rq_pc = "media"
    /\ rq_i < NumMedia(rq_num_media)
    /\ MediaUrlAt(rq_i) = <<>>
    /\ \E y \in {[i |-> rq_i, url |-> <<>>, mime |-> MediaTypeAt(rq_i),
                    blob |-> NoBlob, err |-> MissingMediaUrl]} :
          YieldMedia(y)
    /\ UNCHANGED <<inputVars, rq_incoming_text, rq_history, rq_attempt, rq_last_err,
                   rq_log, contextVars, answerVars,
                   chunkVars, urlVars, filterVars, replyVars, botVars, pdfVars, verifyVars>>

\* lines 254-255 and 228-229: auth_get is called for the URL
MediaFetch ==
    /\ rq_pc = "media"
    /\ rq_i < NumMedia(rq_num_media)
    /\ MediaUrlAt(rq_i) # <<>>
    /\ rq_attempt' = 1
    /\ rq_last_err' = <<>>
    /\ rq_pc' = "fetch"
    /\ UNCHANGED <<inputVars, rq_incoming_text, rq_history, rq_i, rq_log, rq_yield,
                   rq_images, rq_pdf_blobs, rq_media_notes, contextVars, answerVars,
                   chunkVars, urlVars, filterVars, replyVars, botVars, pdfVars, verifyVars>>

\* lines 231-233 and 256-268: the attempt is answered with status 200 and a
\* body; auth_get returns and the item is yielded with its bytes
FetchOk ==
    /\ rq_pc = "fetch"
    /\ \E r \in ServedFor(rq_media[rq_i + 1].ctype) :
          /\ ResponseOk(r)
          /\ \E m \in {NormaliseHeic(ResponseMime(r.header, MediaTypeAt(rq_i)), r.content)} :
                \E y \in {[i |-> rq_i, url |-> MediaUrlAt(rq_i), mime |-> m.mime,
                            blob |-> m.blob, err |-> <<>>]} :
                    YieldMedia(y)
    /\ rq_log' = Append(rq_log, [call |-> "get", i |-> rq_i, arg |-> rq_attempt, ok |-> TRUE])
    /\ UNCHANGED <<inputVars, rq_incoming_text, rq_history, rq_attempt, rq_last_err,
                   contextVars, answerVars,
                   chunkVars, urlVars, filterVars, replyVars, botVars, pdfVars, verifyVars>>

\* lines 231-238 and 269-270: the attempt is answered with an error or an
\* empty body, or raises; auth_get sleeps, then tries again or raises
\* download_failed, which iter_media yields as a download_error
FetchFail ==
    /\ rq_pc = "fetch"
    /\ \E last_err \in {HttpError(r) : r \in {f \in FailedResponses : ~ResponseOk(f)}}
                           \cup {GetException} :
          /\ rq_last_err' = last_err
          /\ IF AttemptsLeft(rq_attempt)
             THEN /\ rq_attempt' = rq_attempt + 1
                  /\ UNCHANGED <<rq_i, rq_pc, rq_yield, rq_images, rq_pdf_blobs,
                                 rq_media_notes>>
             ELSE /\ \E y \in {[i |-> rq_i, url |-> MediaUrlAt(rq_i),
                                    mime |-> MediaTypeAt(rq_i), blob |-> NoBlob,
                                    err |-> DownloadError(DownloadFailed(last_err))]} :
                        YieldMedia(y)
                  /\ UNCHANGED rq_attempt
    /\ rq_log' = rq_log \o
          <<[call |-> "get", i |-> rq_i, arg |-> rq_attempt, ok |-> FALSE],
            [call |-> "sleep", i |-> rq_i, arg |-> SleepTime(rq_attempt), ok |-> FALSE]>>
    /\ UNCHANGED <<inputVars, rq_incoming_text, rq_history, contextVars, answerVars,
                   chunkVars, urlVars, filterVars, replyVars, botVars, pdfVars, verifyVars>>

\* line 248: range(n) is exhausted
MediaEnd ==
    /\ rq_pc = "media"
    /\ ~(rq_i < NumMedia(rq_num_media))
    /\ rq_pc' = "pdfs"
    /\ UNCHANGED <<inputVars, rq_incoming_text, rq_history, mediaVars, contextVars,
                   answerVars, chunkVars, urlVars, filterVars, replyVars, botVars, pdfVars, verifyVars>>

\* lines 299-301: the text of the next PDF
ExtractPdf ==
    /\ rq_pc = "pdfs"
    /\ Len(rq_extracted) < Len(rq_pdf_blobs)
    /\ rq_extracted' =
          Append(rq_extracted,
                 PdfBlock(Len(rq_extracted),
                          extract_text_from_pdf(rq_pdf_blobs[Len(rq_extracted) + 1])))
    /\ UNCHANGED <<inputVars, rq_pc, rq_incoming_text, rq_history, mediaVars, rq_urls,
                   rq_url_contexts, rq_context, answerVars,
                   chunkVars, urlVars, filterVars, replyVars, botVars, pdfVars, verifyVars>>

\* line 305: the URLs typed in the message, at most 5
PdfsEnd ==
    /\ rq_pc = "pdfs"
    /\ ~(Len(rq_extracted) < Len(rq_pdf_blobs))
    /\ rq_urls' = FirstChars(extract_urls(rq_incoming_text), MaxScraped)
    /\ rq_pc' = "urls"
    /\ UNCHANGED <<inputVars, rq_incoming_text, rq_history, mediaVars, rq_extracted,
                   rq_url_contexts, rq_context, answerVars,
                   chunkVars, urlVars, filterVars, replyVars, botVars, pdfVars, verifyVars>>

\* lines 305-308: the next URL is scraped
ScrapeUrl ==
    /\ rq_pc = "urls"
    /\ rq_urls # <<>>
    /\ \E page_text \in PageTexts :
          rq_url_contexts' =
              IF page_text # <<>>
              THEN Append(rq_url_contexts, UrlBlock(Head(rq_urls), page_text))
              ELSE rq_url_contexts
    /\ rq_urls' = Tail(rq_urls)
    /\ UNCHANGED <<inputVars, rq_pc, rq_incoming_text, rq_history, mediaVars, rq_extracted,
                   rq_context, answerVars,
                   chunkVars, urlVars, filterVars, replyVars, botVars, pdfVars, verifyVars>>

\* lines 310-316
BuildContext ==
    /\ rq_pc = "urls"
    /\ rq_urls = <<>>
    /\ rq_context' = combined_context_of(rq_incoming_text, rq_extracted, rq_media_notes,
                                         rq_url_contexts)
    /\ rq_pc' = "ask"
    /\ UNCHANGED <<inputVars, rq_incoming_text, rq_history, mediaVars, rq_extracted,
                   rq_urls, rq_url_contexts, answerVars,
                   chunkVars, urlVars, filterVars, replyVars, botVars, pdfVars, verifyVars>>

\* lines 318-325: the reasoning service is called; it answers or raises
AskService ==
    /\ rq_pc = "ask"
    /\ rq_call' = ServiceCall(rq_context, rq_images, rq_history)
    /\ \E raised \in BOOLEAN, resp_text \in ResponseTexts :
          /\ raised => resp_text = <<>>
          /\ rq_raised' = raised
          /\ rq_model_reply' = model_reply_of(rq_images # <<>>, raised, resp_text)
    /\ rq_pc' = "post"
    /\ UNCHANGED <<inputVars, rq_incoming_text, rq_history, mediaVars, contextVars,
                   rq_final, rq_sent,
                   chunkVars, urlVars, filterVars, replyVars, botVars, pdfVars, verifyVars>>

\* lines 327-343: the sources are filtered, the history saved, the reply sent
ReqFinish ==
    /\ rq_pc = "post"
    /\ rq_final' = final_reply_of(rq_model_reply)
    /\ rq_history' = Append(rq_history, AssistantTurn(rq_final'))
    /\ db' = save_history(db, RequestUser, rq_history')
    /\ rq_sent' = chunk_message(rq_final', WHATSAPP_MSG_LIMIT)
    /\ rq_pc' = "done"
    /\ UNCHANGED <<inputVars, rq_incoming_text, mediaVars, contextVars, rq_call, rq_raised,
                   rq_model_reply, req, started,
                   chunkVars, urlVars, filterVars, replyVars, pdfVars, verifyVars>>

\* lines 275-295: the handler up to the end of its media loop
NextMedia == ReqBegin \/ MediaMissing \/ MediaFetch \/ FetchFail \/ FetchOk \/ MediaEnd

\* no step of the handler waits for another request: it runs on
SpecMedia == InitMedia /\ [][NextMedia]_vars /\ WF_vars(NextMedia)

NextRequest ==
    \/ NextMedia
    \/ ExtractPdf \/ PdfsEnd
    \/ ScrapeUrl \/ BuildContext
    \/ AskService
    \/ ReqFinish

SpecRequest == InitRequest /\ [][NextRequest]_vars

(***************************************************************************)
(* Properties of the media loop (checked under SpecMedia).                 *)
(***************************************************************************)
\* the requests.get calls made for media i, in order
GetsFor(i) == SelectSeq(rq_log, LAMBDA e : e.call = "get" /\ e.i = i)

\* the time.sleep calls made for media i, in order
SleepsFor(i) == SelectSeq(rq_log, LAMBDA e : e.call = "sleep" /\ e.i = i)

\* the text "[Media i] " followed by what
NoteTagged(i, what) ==
    <<"[", "M", "e", "d", "i", "a", " ">> \o str_int(i) \o <<"]", " ">> \o what

\* the tuple yielded for media i reports a download that failed
DownloadFailedYield(y) ==
    startswith(y.err, <<"d", "o", "w", "n", "l", "o", "a", "d", "_", "e", "r", "r",
                        "o", "r", ":", " ", "d", "o", "w", "n", "l", "o", "a", "d",
                        "_", "f", "a", "i", "l", "e", "d", ":", " ">>)

\* what C13 says of the calls made so far and of the tuples yielded so far
RetriesBounded ==
    /\ \A i \in 0..MaxMedia :
          LET gets == GetsFor(i)
              sleeps == SleepsFor(i)
          IN  /\ Len(gets) <= 3
              /\ \A k \in 1..Len(gets) :
                    /\ gets[k].arg = k
                    /\ gets[k].ok => k = Len(gets)
              /\ \A k \in 1..(Len(sleeps) - 1) : sleeps[k].arg < sleeps[k + 1].arg
              /\ Len(sleeps) = Cardinality({k \in 1..Len(gets) : ~gets[k].ok})
    /\ \A k \in 1..Len(rq_yield) :
          LET y == rq_yield[k]
              gets == GetsFor(y.i)
          IN  /\ DownloadFailedYield(y) <=>
                    (Len(gets) = 3 /\ \A a \in 1..3 : ~gets[a].ok)
              /\ DownloadFailedYield(y) =>
                    \E n \in 1..Len(rq_media_notes) :
                        rq_media_notes[n] = NoteTagged(y.i, y.err)
              /\ (y.url # <<>> /\ y.err = <<>>) =>
                    (gets # <<>> /\ gets[Len(gets)].ok /\ y.blob.size > 0)

\* C13: auth_get makes at most 3 attempts, numbered from 1, stops at the
\* first that gives status 200 and a body, sleeps longer after every failed
\* attempt, and raises download_failed exactly after 3 failed attempts, which
\* becomes a "[Media i]" note; every call of auth_get ends, and the media
\* loop goes on to its end.
C13_BoundedRetries ==
    /\ []RetriesBounded
    /\ (rq_pc = "fetch") ~> (rq_pc = "media")
    /\ <>(rq_pc = "pdfs")

\* C13 witness: the first download failed after three attempts and sleeps
\* of 0.8, 1.6 and 2.4 seconds, the second succeeded at its second attempt
C13_Witness ==
    /\ rq_pc = "pdfs"
    /\ Len(rq_yield) = 2
    /\ DownloadFailedYield(rq_yield[1])
    /\ [k \in 1..3 |-> SleepsFor(0)[k].arg] = <<8, 16, 24>>
    /\ rq_yield[2].err = <<>>
    /\ Len(GetsFor(1)) = 2

\* the declared type of media reference j is neither an image type nor a
\* PDF type
DeclaredUnsupported(j) ==
    /\ ~IsImageType(lower(rq_media[j + 1].ctype))
    /\ lower(rq_media[j + 1].ctype) \notin PdfTypes

\* C14: for a media reference whose declared type is neither an image type
\* nor a PDF type no requests.get is ever made, and once the media loop has
\* ended an "unsupported type" note is recorded for it.
C14_UnsupportedNotFetched ==
    \A j \in 0..(Len(rq_media) - 1) :
        (j < NumMedia(rq_num_media) /\ rq_media[j + 1].url # <<>> /\ DeclaredUnsupported(j)) =>
            /\ GetsFor(j) = <<>>
            /\ rq_pc = "pdfs" =>
                  \E n \in 1..Len(rq_media_notes) :
                      startswith(rq_media_notes[n],
                                 NoteTagged(j, <<"u", "n", "s", "u", "p", "p", "o", "r",
                                                 "t", "e", "d", " ", "t", "y", "p", "e">>))

\* C15: the tuples yielded so far are those of the indices 0, 1, ... in
\* order, each either a download with its bytes or an error without bytes;
\* every error is recorded as a "[Media i]" note; and when the loop has
\* ended there is one tuple for each of the n declared references, a
\* download having been attempted for each that has a URL.
C15_OneOutcomePerIndex ==
    /\ \A k \in 1..Len(rq_yield) :
          LET y == rq_yield[k]
          IN  /\ y.i = k - 1
              /\ \/ y.err = <<>> /\ y.blob.size > 0
                 \/ y.err # <<>> /\ y.blob.size = 0
              /\ y.err # <<>> =>
                    \E n \in 1..Len(rq_media_notes) :
                        rq_media_notes[n] = NoteTagged(y.i, y.err)
              /\ y.url # <<>> => GetsFor(y.i) # <<>>
    /\ rq_pc = "pdfs" =>
          /\ Len(rq_yield) = (IF rq_num_media = <<"x">> THEN 0 ELSE Len(rq_media))
          /\ \A j \in 0..(Len(rq_yield) - 1) :
                (rq_media[j + 1].url = <<>>) = (rq_yield[j + 1].url = <<>>)

\* C15 witness: of two references the first has no URL and the second was
\* downloaded
C15_Witness ==
    /\ rq_pc = "pdfs"
    /\ Len(rq_yield) = 2
    /\ rq_yield[1].err = <<"m", "i", "s", "s", "i", "n", "g", "_", "m", "e", "d", "i",
                           "a", "_", "u", "r", "l">>
    /\ rq_yield[2].err = <<>>
    /\ rq_yield[2].blob.size > 0

(***************************************************************************)
(* Properties of the whole handler (checked under SpecRequest).            *)
(***************************************************************************)
\* C12: when the handler has ended, the response holds at least one
\* message and no message is empty.
C12_NonEmptyReply ==
    rq_pc = "done" =>
        /\ Len(rq_sent) >= 1
        /\ \A k \in 1..Len(rq_sent) : rq_sent[k] # <<>>

\* C16: once the reasoning service has been called for an empty combined
\* context, the user content it was handed is the placeholder text, in a
\* text call and in a call with images alike.
C16_PlaceholderForEmptyContext ==
    (rq_pc \in {"post", "done"} /\ rq_context = <<>>) =>
        rq_call.user_content =
            <<<<"U", "s", "e", "r", " ", "s", "e", "n", "t", " ", "a", "n", " ", "e", "m", "p", "t", "y", " ", "m", "e", "s", "s", "a", "g", "e", ".">>>>

\* text, lowercased, holds one of the keywords
HoldsKeyword(text) ==
    \E k \in DOMAIN MISINFO_KEYWORDS :
        \E i \in 1..Len(text) :
            /\ i + Len(MISINFO_KEYWORDS[k]) - 1 <= Len(text)
            /\ \A j \in 1..Len(MISINFO_KEYWORDS[k]) :
                  lower(<<text[i + j - 1]>>) = <<MISINFO_KEYWORDS[k][j]>>

\* C17 as stated: the claim template is used exactly when the text of the
\* inbound message holds a keyword.
C17_TemplateByMessageText ==
    rq_pc \in {"post", "done"} =>
        (rq_call.instruction = "claim" <=> HoldsKeyword(rq_incoming_text))

\* C17 amended: the claim template is used exactly when the combined
\* context (the message text, the PDF blocks, the media notes and the scraped
\* URL blocks) holds a keyword, in any letter case, and the general template
\* otherwise; choosing the template changes neither the downloads made, nor
\* the media collected, nor the extracted texts, nor the context.
C17_TemplateByContext ==
    /\ [](rq_pc \in {"post", "done"} =>
            (rq_call.instruction = "claim" <=> HoldsKeyword(rq_context)))
    /\ [][rq_call' # rq_call => UNCHANGED <<mediaVars, contextVars>>]_vars

\* C17 witness: a message whose own text holds no keyword is answered under
\* the claim template, the keyword standing in the text of its PDF
C17_Witness ==
    /\ rq_pc = "done"
    /\ rq_call.instruction = "claim"
    /\ rq_incoming_text = <<"h", "i">>
    /\ rq_extracted # <<>>

\* C19: when the handler has ended, the response is the single internal-
\* error message exactly when the reasoning call raised, whatever happened
\* to the downloads, the PDFs and the scrapes; and then that message is the
\* final reply and the Assistant turn stored last in the history.
C19_ErrorReplyIffCallFailed ==
    rq_pc = "done" =>
        /\ (rq_sent = <<InternalError>>) <=> rq_raised
        /\ rq_raised =>
              /\ rq_final = InternalError
              /\ rq_history[Len(rq_history)] =
                    <<"A", "s", "s", "i", "s", "t", "a", "n", "t", ":", " ">> \o InternalError
              /\ endswith(db[RequestUser], InternalError)

\* C19 witness: a download failed, the reasoning call raised too, and the
\* user got the internal-error message
C19_Witness ==
    /\ rq_pc = "done"
    /\ rq_raised
    /\ rq_media_notes # <<>>
    /\ rq_sent = <<InternalError>>

(***************************************************************************)
(* verify_claim (src/aiagent/main.py:78-146) followed step by step for     *)
(* every request text of VerifyTexts and everything the generative model   *)
(* can do: raise, answer with what is no JSON, with JSON that is no        *)
(* object, with an object that lacks a key, whose links are null or whose  *)
(* summary is no string, or with an object holding a verdict and up to     *)
(* MaxLinks links.                                                         *)
(***************************************************************************)
\* request.text
VerifyTexts == {
    <<>>,
    <<" ", "\n", " ">>,
    <<" ", "g", "a", "r", "l", "i", "c", " ", "\n", " ", "c", "u", "r", "e", "s", " ", " ", "f", "l", "u">>}

\* a link to an allow-listed host
LinkWho == [is_dict |-> TRUE, url_is_text |-> TRUE, url |-> <<"h", "t", "t", "p", "s", ":", "/", "/", "w", "h", "o", ".", "i", "n", "t", "/", "a">>,
     has_title |-> TRUE, title |-> <<"W", "H", "O">>]

\* a link to a host that only ends with the letters of a listed domain, with
\* blanks around the url and no title
LinkNotWho == [is_dict |-> TRUE, url_is_text |-> TRUE, url |-> <<" ", "h", "t", "t", "p", "s", ":", "/", "/", "n", "o", "t", "w", "h", "o", ".", "i", "n", "t", "/", "a", " ">>,
     has_title |-> FALSE, title |-> <<>>]

\* a link to a host that is not listed, a listed domain standing in the path
LinkEvil == [is_dict |-> TRUE, url_is_text |-> TRUE, url |-> <<"h", "t", "t", "p", "s", ":", "/", "/", "e", "v", "i", "l", ".", "c", "o", "m", "/", "w", "h", "o", ".", "i", "n", "t">>,
     has_title |-> TRUE, title |-> <<"W", "H", "O">>]

\* a link to a subdomain of a listed domain, in capitals
LinkSubdomain == [is_dict |-> TRUE, url_is_text |-> TRUE, url |-> <<"H", "T", "T", "P", "S", ":", "/", "/", "D", "a", "t", "a", ".", "C", "D", "C", ".", "g", "o", "v", "/", "x">>,
     has_title |-> TRUE, title |-> <<" ", "C", "D", "C", " ">>]

\* a link with no "//" in its url
LinkBare == [is_dict |-> TRUE, url_is_text |-> TRUE, url |-> <<"w", "h", "o", ".", "i", "n", "t">>,
     has_title |-> TRUE, title |-> <<"W", "H", "O">>]

\* a link with no url
LinkNoUrl == [is_dict |-> TRUE, url_is_text |-> TRUE, url |-> <<>>,
     has_title |-> TRUE, title |-> <<"W", "H", "O">>]

\* an entry of links that is no JSON object
LinkNoObject == [is_dict |-> FALSE, url_is_text |-> TRUE, url |-> <<>>,
     has_title |-> FALSE, title |-> <<>>]

\* a link whose url is no string
LinkUrlNull == [is_dict |-> TRUE, url_is_text |-> FALSE, url |-> <<>>,
     has_title |-> TRUE, title |-> <<"W", "H", "O">>]

LinkPool == {LinkWho, LinkNotWho, LinkEvil, LinkSubdomain, LinkBare, LinkNoUrl,
             LinkNoObject, LinkUrlNull}

\* the verdicts the model may give: instructed ones and others
ModelVerdicts == {"True", "Misleading", "Unclear", "Maybe"}

\* what generate_content and json.loads give, other than a complete object
FailedServices ==
    {[outcome |-> o, verdict |-> "none", links |-> <<>>] :
        o \in {"raises", "not_json", "not_object", "number", "missing_key", "null_links"}}

\* everything the generative model can do
VerifyServices ==
    FailedServices
    \cup {[outcome |-> o, verdict |-> v, links |-> l] :
            o \in {"object", "summary_no_text"},
            v \in ModelVerdicts,
            l \in UNION {[1..k -> LinkPool] : k \in 0..MaxLinks}}

InitVerify ==
    /\ vf_text \in VerifyTexts
    /\ vf_service \in (IF normalize(vf_text) = <<>> THEN {NoService} ELSE VerifyServices)
    /\ vf_claim = <<>>
    /\ vf_links = <<>>
    /\ vf_valid = <<>>
    /\ vf_resp = NoResp
    /\ vf_pc = "begin"
    /\ ChunkIdle /\ UrlIdle /\ FilterIdle /\ ReplyIdle /\ BotIdle /\ PdfIdle /\ RequestIdle

\* the handler returns resp
VerifyReturns(resp) ==
    /\ vf_resp' = resp
    /\ vf_pc' = "done"

\* lines 80-89: the claim is normalised; an empty one is answered at once
VerifyBegin ==
    /\ vf_pc = "begin"
    /\ vf_claim' = normalize(vf_text)
    /\ IF vf_claim' = <<>>
       THEN VerifyReturns(UnclearResp("Empty claim provided"))
       ELSE vf_pc' = "call" /\ UNCHANGED vf_resp
    /\ UNCHANGED <<vf_text, vf_service, vf_links, vf_valid,
                   chunkVars, urlVars, filterVars, replyVars, botVars, pdfVars, requestVars>>

\* lines 91-100 and 140-146: generate_content raises
VerifyCallRaises ==
    /\ vf_pc = "call"
    /\ vf_service.outcome = "raises"
    /\ VerifyReturns(UnclearResp("API error"))
    /\ UNCHANGED <<vf_text, vf_service, vf_claim, vf_links, vf_valid,
                   chunkVars, urlVars, filterVars, replyVars, botVars, pdfVars, requestVars>>

\* lines 91-100: generate_content returns a response
VerifyCall ==
    /\ vf_pc = "call"
    /\ vf_service.outcome # "raises"
    /\ vf_pc' = "parse"
    /\ UNCHANGED <<vf_text, vf_service, vf_claim, vf_links, vf_valid, vf_resp,
                   chunkVars, urlVars, filterVars, replyVars, botVars, pdfVars, requestVars>>

\* lines 102-109: the response is parsed and its keys are looked for.
\* json.loads raises JSONDecodeError on what is no JSON; a JSON array or
\* object without the three keys raises the ValueError of line 106; on a
\* JSON number "key in result" raises TypeError and on null links
\* "None[:3]" does, which line 140 catches
VerifyParse ==
    /\ vf_pc = "parse"
    /\ IF vf_service.outcome \in {"not_json", "not_object", "missing_key"}
       THEN VerifyReturns(UnclearResp("Error parsing response")) /\ UNCHANGED vf_links
       ELSE IF vf_service.outcome \in {"number", "null_links"}
       THEN VerifyReturns(UnclearResp("API error")) /\ UNCHANGED vf_links
       ELSE /\ vf_links' = FirstItems(vf_service.links, LinksKeep)
            /\ vf_pc' = "links"
            /\ UNCHANGED vf_resp
    /\ UNCHANGED <<vf_text, vf_service, vf_claim, vf_valid,
                   chunkVars, urlVars, filterVars, replyVars, botVars, pdfVars, requestVars>>

\* lines 109-117: one iteration of the loop over the links.  On a url that
\* is no string ".strip()" raises AttributeError, which line 140 catches
VerifyLink ==
    /\ vf_pc = "links"
    /\ vf_links # <<>>
    /\ \E link \in {Head(vf_links)} :
          IF ~link.is_dict
          THEN /\ vf_links' = Tail(vf_links)
               /\ UNCHANGED <<vf_valid, vf_resp, vf_pc>>
          ELSE IF ~link.url_is_text
          THEN /\ VerifyReturns(UnclearResp("API error"))
               /\ UNCHANGED <<vf_links, vf_valid>>
          ELSE /\ vf_valid' = AppendIfValid(vf_valid, link, LinkUrl(link))
               /\ vf_links' = Tail(vf_links)
               /\ UNCHANGED <<vf_resp, vf_pc>>
    /\ UNCHANGED <<vf_text, vf_service, vf_claim,
                   chunkVars, urlVars, filterVars, replyVars, botVars, pdfVars, requestVars>>

\* lines 119-138: the verdict is settled and the response built; a summary
\* that is no string fails the validation of VerifyResp, a ValueError that
\* line 132 catches
VerifyReturn ==
    /\ vf_pc = "links"
    /\ vf_links = <<>>
    /\ IF vf_service.outcome = "summary_no_text"
       THEN VerifyReturns(UnclearResp("Error parsing response"))
       ELSE VerifyReturns([verdict |-> VerdictOf(vf_service.verdict, vf_valid),
                           summary |-> "summary of the model",
                           links |-> vf_valid])
    /\ UNCHANGED <<vf_text, vf_service, vf_claim, vf_links, vf_valid,
                   chunkVars, urlVars, filterVars, replyVars, botVars, pdfVars, requestVars>>

NextVerify ==
    \/ VerifyBegin
    \/ VerifyCallRaises
    \/ VerifyCall
    \/ VerifyParse
    \/ VerifyLink
    \/ VerifyReturn

SpecVerify == InitVerify /\ [][NextVerify]_vars

\* the host of url as urlparse gives it, lowercased
UrlHost(url) == lower(NetlocHostname(UrlNetloc(url)))

\* host equals a domain of ALLOWED_DOMAINS or ends with "." and such a domain
DomainListedStructurally(host) ==
    \E k \in DOMAIN VERIFY_ALLOWED_DOMAINS :
        \/ host = VERIFY_ALLOWED_DOMAINS[k]
        \/ endswith(host, <<".">> \o VERIFY_ALLOWED_DOMAINS[k])

\* C21: in every response of /verify, whatever the generative model gave,
\* every returned link has a host that equals or is a dotted subdomain of
\* a domain of ALLOWED_DOMAINS, at most 3 links are returned, the verdict is
\* one of True, False, Misleading and Unclear, and it is Unclear when no
\* link is returned.
C21_VerifyLinksAllowListed ==
    vf_pc = "done" =>
        /\ \A i \in DOMAIN vf_resp.links :
              DomainListedStructurally(UrlHost(vf_resp.links[i].url))
        /\ Len(vf_resp.links) <= LinksKeep
        /\ vf_resp.verdict \in VerdictNames
        /\ (vf_resp.links = <<>> => vf_resp.verdict = "Unclear")

====
